---------------------------- MODULE Spec2Model ----------------------------
(***************************************************************************)
(* Generation governance core of the microlearning backend:                *)
(*   - Cost Governor   (app/services/cost_tracker.py)                      *)
(*   - Content Cache   (app/services/content_cache.py)                     *)
(*                                                                         *)
(* Money is 4-decimal fixed point: one unit is 0.0001 USD, so 50.00 USD is *)
(* 500000.  Time is whole hours since Monday 2024-01-01 00:00 UTC.         *)
(***************************************************************************)
EXTENDS Integers, Sequences, FiniteSets, TLC

VARIABLES
    now,          \* datetime.utcnow(), in hours
    budgets,      \* creator_budgets table: creator_id -> row or NoBudget
    costEntries,  \* ai_service_costs table, id = position
    approvals,    \* approval_requests table, id = position
    lastOp,       \* the last call made on the cost tracker and what it returned
    reconciled,   \* number of record_actual_cost calls made so far
    approval_callbacks, \* CostTracker.approval_callbacks, in insertion order
    notified,     \* the callback invocations made so far, in order
    tasks,        \* concurrent request tasks: position and locals of each
    redis_client, \* whether initialize() obtained a fast-tier client
    redis,        \* fast tier: cache_key -> the value held and its expiry
    redisUp,      \* whether calls to the fast tier currently succeed
    dbUp,         \* whether calls to the durable tier currently succeed
    cacheRows,    \* content_cache table: cache_key -> row (cache_key is unique)
    lastGet,      \* the last call made on the cache manager at this hour and its result
    tierIn,       \* input of determine_cost_tier
    tierOut,      \* its result
    estimateIn,   \* arguments of estimate_cost
    estimateOut,  \* its result
    ENVIRONMENT,  \* settings.ENVIRONMENT
    mock_mode,    \* AIServiceManager.mock_mode
    services,     \* AIServiceManager.services: the mock_mode of each adapter
    lastCall,     \* the last generate_content call: invocations and outcome
    keyIn,        \* <<cache type, parameters, parameters>> given to _create_cache_key
    keyOut        \* the keys returned for them

vars == <<now, budgets, costEntries, approvals, lastOp, reconciled,
          approval_callbacks, notified, tasks,
          redis_client, redis, redisUp, dbUp, cacheRows, lastGet, tierIn, tierOut,
          estimateIn, estimateOut,
          ENVIRONMENT, mock_mode, services, lastCall, keyIn, keyOut>>

costVars  == <<budgets, costEntries, approvals, lastOp, reconciled,
               approval_callbacks, notified>>
cacheVars == <<redis_client, redis, redisUp, dbUp, cacheRows, lastGet>>
tierVars  == <<tierIn, tierOut, estimateIn, estimateOut>>
routerVars == <<ENVIRONMENT, mock_mode, services, lastCall>>
keyVars   == <<keyIn, keyOut>>

-----------------------------------------------------------------------------
(* Bounds of the model *)

NTasks     == 2        \* requests in flight at once
Probe      == 12       \* costs tried on each side of a tier boundary, in units
MaxEntries == 1        \* cost entries created in one behaviour
MaxRecords == 1        \* record_actual_cost calls made in one behaviour
MaxTime    == 46       \* hours the clock may reach
MaxKeys    == 1        \* cache keys written in one behaviour
MaxHits    == 2        \* hits counted on one cache entry
MaxStrLen == 4         \* items in a string value given to _create_cache_key
MaxSeeded == 2         \* entries the durable tier holds when the lookups start
MaxCacheTime == 370    \* hours the clock may reach while the cache is exercised

-----------------------------------------------------------------------------
(* Enumerations *)

PENDING       == "pending"
APPROVED      == "approved"
REJECTED      == "rejected"
AUTO_APPROVED == "auto_approved"
EXPIRED       == "expired"
ApprovalStatus == {PENDING, APPROVED, REJECTED, AUTO_APPROVED, EXPIRED}

LOW      == "low"
MEDIUM   == "medium"
HIGH     == "high"
CRITICAL == "critical"
CostTier == {LOW, MEDIUM, HIGH, CRITICAL}

OPENAI_DALLE     == "openai_dalle"
ANTHROPIC_CLAUDE == "anthropic_claude"
ELEVENLABS_TTS   == "elevenlabs_tts"
RUNWAY_VIDEO     == "runway_video"
MIDJOURNEY       == "midjourney"

NoTime == -1           \* a NULL DateTime column
NoCost == -1           \* a NULL Numeric column
NoOne  == "None"       \* a NULL UUID / Text column

-----------------------------------------------------------------------------
(* Calendar: datetime arithmetic on whole hours, 2024-01-01 is a Monday *)

HoursPerDay == 24

MonthStart == <<0, 31, 60, 91, 121>>   \* first day of Jan..May 2024, in days

DayOf(t) == t \div HoursPerDay

\* now.replace(hour=0, minute=0, second=0, microsecond=0)
Midnight(t) == t - (t % HoursPerDay)

\* now.weekday(): Monday is 0
Weekday(t) == DayOf(t) % 7

MonthOf(t) == CHOOSE m \in 1..4 : MonthStart[m] <= DayOf(t) /\ DayOf(t) < MonthStart[m + 1]

\* now.replace(day=1): same time of day, first day of the month
ReplaceDay1(t) == t - (DayOf(t) - MonthStart[MonthOf(t)]) * HoursPerDay

Days(n) == n * HoursPerDay


-----------------------------------------------------------------------------
(* Fixed-point helpers *)

USD(dollars) == dollars * 10000

\* x / d rounded to the nearest integer, ties to the even neighbour
\* (Decimal.quantize under the default ROUND_HALF_EVEN); x >= 0, d > 0
RoundHalfEven(x, d) ==
    LET q == x \div d
        r == x % d
    IN  IF 2 * r < d THEN q
        ELSE IF 2 * r > d THEN q + 1
        ELSE IF q % 2 = 0 THEN q ELSE q + 1

\* x / d rounded to the nearest integer when x stands for a value a hair
\* below x (a rate such as 0.03 / 1000 is the float 2.9999999999999997e-05):
\* an exact tie falls to the lower neighbour
RoundTieDown(x, d) ==
    LET q == x \div d
        r == x % d
    IN  IF 2 * r <= d THEN q ELSE q + 1

Get(params, key, default) == IF key \in DOMAIN params THEN params[key] ELSE default

-----------------------------------------------------------------------------
(* CostTracker.estimate_cost *)

OPENAI_GPT == "openai_gpt"

\* the table of a service answers for any model
HasRates_AnyModel(service_type, model) ==
    service_type \in {OPENAI_GPT, OPENAI_DALLE, ANTHROPIC_CLAUDE, ELEVENLABS_TTS, RUNWAY_VIDEO}

\* SERVICE_RATES: whether the table has a (truthy) entry for service/model,
\* after service_rates.get(model, service_rates.get("default", {}))
HasRates(service_type, model) ==
    \/ service_type = OPENAI_GPT /\ model \in {"gpt-4", "gpt-3.5-turbo"}
    \/ service_type = OPENAI_DALLE /\ model \in {"dall-e-3", "dall-e-2"}
    \/ service_type = ANTHROPIC_CLAUDE /\ model \in {"claude-3-sonnet", "claude-3-haiku"}
    \/ service_type = ELEVENLABS_TTS
    \/ service_type = RUNWAY_VIDEO /\ model = "gen-2"

\* per-image rate in units, model_rates.get(quality, model_rates.get("standard", 0.040))
DalleRate(model, quality) ==
    IF model = "dall-e-3"
    THEN (IF quality = "hd" THEN 800 ELSE 400)
    ELSE (IF quality = "1024x1024" THEN 200
          ELSE IF quality = "512x512" THEN 180 ELSE 400)

DefaultEstimate == 1000    \* Decimal("0.10")


estimate_cost(service_type, model, params) ==
    IF ~HasRates(service_type, model) THEN DefaultEstimate
    ELSE IF service_type = OPENAI_GPT THEN
        LET input_tokens  == Get(params, "input_tokens", 0)
            output_tokens == Get(params, "max_tokens", 150)
        IN  IF model = "gpt-4"
            \* 0.03/1000 and 0.06/1000 are floats a hair below 0.3 and 0.6 units
            THEN IF input_tokens + output_tokens = 0 THEN 0
                 ELSE RoundTieDown(3 * input_tokens + 6 * output_tokens, 10)
            \* 0.001/1000 and 0.002/1000 are exactly 1e-06 and 2e-06
            ELSE RoundHalfEven(input_tokens + 2 * output_tokens, 100)
    ELSE IF service_type = OPENAI_DALLE THEN
        Get(params, "n", 1) * DalleRate(model, Get(params, "quality", "standard"))
    ELSE IF service_type = ELEVENLABS_TTS THEN
        \* 0.18/1000 per character is 1.8 units less a hair; 9c/5 is never a tie
        RoundTieDown(9 * Get(params, "text_len", 0), 5)
    ELSE IF service_type = RUNWAY_VIDEO THEN
        Get(params, "duration", 5) * 125
    ELSE 0   \* no branch for this service: Decimal("0.00")

-----------------------------------------------------------------------------
(* CostTracker.determine_cost_tier *)

\* float(cost): the nearest binary fraction.  The model keeps 14 fractional
\* bits (a double keeps more, and rounds no further from the cost), so one
\* dollar is 2^14 and a unit is 1024/625 of that; 625 is odd, so no tie arises.
FloatScaleNum == 1024
FloatScaleDen == 625
ToFloat(cost) == RoundHalfEven(cost * FloatScaleNum, FloatScaleDen)
FloatOfDollars(d) == d * 16 * FloatScaleNum

Inf == -2    \* float('inf')

COST_TIERS == <<
    [tier |-> LOW,      min_cost |-> 0,                   max_cost |-> FloatOfDollars(1)],
    [tier |-> MEDIUM,   min_cost |-> FloatOfDollars(1),   max_cost |-> FloatOfDollars(10)],
    [tier |-> HIGH,     min_cost |-> FloatOfDollars(10),  max_cost |-> FloatOfDollars(100)],
    [tier |-> CRITICAL, min_cost |-> FloatOfDollars(100), max_cost |-> Inf] >>

\* the band test with an inclusive upper edge
InBand_InclusiveHigh(band, cost_float) ==
    /\ band.min_cost <= cost_float
    /\ (band.max_cost = Inf \/ cost_float <= band.max_cost)

InBand(band, cost_float) ==
    /\ band.min_cost <= cost_float
    /\ (band.max_cost = Inf \/ cost_float < band.max_cost)

RECURSIVE ScanTiers(_, _)
ScanTiers(i, cost_float) ==
    IF i > Len(COST_TIERS) THEN CRITICAL
    ELSE IF InBand(COST_TIERS[i], cost_float) THEN COST_TIERS[i].tier
    ELSE ScanTiers(i + 1, cost_float)

determine_cost_tier(cost) == ScanTiers(1, ToFloat(cost))

-----------------------------------------------------------------------------
(* CreatorBudget rows and the budget check *)

Creators == {"c1"}

\* Numeric(10, 2): a value stored in a budget column keeps two decimals
\* (the database rounds half away from zero); x >= 0
Numeric2(x) == ((x + 50) \div 100) * 100

\* a CreatorBudget row with the column defaults of the table
BudgetRow(daily_reset_at, weekly_reset_at, monthly_reset_at) ==
    [ daily_limit   |-> USD(50),  weekly_limit |-> USD(200), monthly_limit |-> USD(500),
      daily_spent   |-> 0,        weekly_spent |-> 0,        monthly_spent |-> 0,
      auto_approve_threshold |-> USD(5),
      require_approval_above |-> USD(25),
      daily_reset_at   |-> daily_reset_at,
      weekly_reset_at  |-> weekly_reset_at,
      monthly_reset_at |-> monthly_reset_at,
      is_suspended     |-> FALSE ]

_create_default_budget(t) ==
    BudgetRow(Midnight(t) + Days(1),
              t + Days(7 - Weekday(t)),
              ReplaceDay1(t) + Days(32))

\* the three periods reset together as soon as the day has rolled over
_reset_budget_periods_if_needed_Together(budget, t) ==
    IF t >= budget.daily_reset_at
    THEN [budget EXCEPT !.daily_spent = 0, !.weekly_spent = 0, !.monthly_spent = 0,
                        !.daily_reset_at = Midnight(t) + Days(1)]
    ELSE budget

\* the budget object after the three independent period checks
_reset_budget_periods_if_needed(budget, t) ==
    LET b1 == IF t >= budget.daily_reset_at
              THEN [budget EXCEPT !.daily_spent = 0,
                                  !.daily_reset_at = Midnight(t) + Days(1)]
              ELSE budget
        b2 == IF t >= b1.weekly_reset_at
              THEN [b1 EXCEPT !.weekly_spent = 0,
                              !.weekly_reset_at = t + Days(7 - Weekday(t))]
              ELSE b1
        b3 == IF t >= b2.monthly_reset_at
              THEN [b2 EXCEPT !.monthly_spent = 0,
                              !.monthly_reset_at = ReplaceDay1(ReplaceDay1(t) + Days(32))]
              ELSE b2
    IN  b3

\* the budget object check_budget_limits works on: the stored row, or a
\* freshly created default one, after the period checks
LoadedBudget(stored, creator_id, t) ==
    _reset_budget_periods_if_needed(
        IF creator_id \in DOMAIN stored THEN stored[creator_id]
        ELSE _create_default_budget(t), t)

\* the limit test with the suspension flag left out
WithinLimits_IgnoresSuspension(budget, estimated_cost) ==
    /\ budget.daily_spent + estimated_cost <= budget.daily_limit
    /\ budget.weekly_spent + estimated_cost <= budget.weekly_limit
    /\ budget.monthly_spent + estimated_cost <= budget.monthly_limit

WithinLimits(budget, estimated_cost) ==
    /\ budget.daily_spent + estimated_cost <= budget.daily_limit
    /\ budget.weekly_spent + estimated_cost <= budget.weekly_limit
    /\ budget.monthly_spent + estimated_cost <= budget.monthly_limit
    /\ ~budget.is_suspended

\* the dictionary with the remaining amounts taken before the operation
check_budget_limits_RemainingBeforeCost(stored, creator_id, estimated_cost, t) ==
    LET budget == LoadedBudget(stored, creator_id, t)
    IN  [ within_limits     |-> WithinLimits(budget, estimated_cost),
          daily_remaining   |-> budget.daily_limit - budget.daily_spent,
          weekly_remaining  |-> budget.weekly_limit - budget.weekly_spent,
          monthly_remaining |-> budget.monthly_limit - budget.monthly_spent,
          auto_approve      |-> estimated_cost <= budget.auto_approve_threshold,
          requires_approval |-> estimated_cost >= budget.require_approval_above,
          budget            |-> budget ]

\* the dictionary check_budget_limits returns
check_budget_limits(stored, creator_id, estimated_cost, t) ==
    LET budget == LoadedBudget(stored, creator_id, t)
    IN  [ within_limits     |-> WithinLimits(budget, estimated_cost),
          daily_remaining   |-> budget.daily_limit - (budget.daily_spent + estimated_cost),
          weekly_remaining  |-> budget.weekly_limit - (budget.weekly_spent + estimated_cost),
          monthly_remaining |-> budget.monthly_limit - (budget.monthly_spent + estimated_cost),
          auto_approve      |-> estimated_cost <= budget.auto_approve_threshold,
          requires_approval |-> estimated_cost >= budget.require_approval_above,
          budget            |-> budget ]

\* the table when check_budget_limits stores nothing
BudgetsAfterCheck_NothingStored(stored, creator_id, t) == stored

\* what check_budget_limits leaves in the table: only the default budget it
\* creates is committed; the period resets are made on the session's object
\* and the session is closed without a commit
BudgetsAfterCheck(stored, creator_id, t) ==
    IF creator_id \in DOMAIN stored THEN stored
    ELSE stored @@ (creator_id :> _create_default_budget(t))

-----------------------------------------------------------------------------
(* The calls made on the cost tracker, one at a time *)

ApprovalHours == 24    \* timedelta(hours=24)

Operators == {"admin"}
Reasons   == {"too expensive"}

\* the operations creators ask for: service, model, operation_params
Requests == {
    [service_type |-> RUNWAY_VIDEO, model |-> "gen-2", params |-> [duration |-> 24]],
    [service_type |-> RUNWAY_VIDEO, model |-> "gen-2", params |-> [duration |-> 160]],
    [service_type |-> OPENAI_DALLE, model |-> "dall-e-3",
     params |-> [n |-> 400, quality |-> "hd"]] }

\* the actual costs providers report
ActualCosts == {2950, 320050}

NoOp == [op |-> "none", arg |-> 0, ok |-> FALSE, status |-> "none",
         request_id |-> 0, within_limits |-> FALSE]

\* the branch taken when the cost tier is not consulted
ApprovalBranch_ThresholdOnly(cost_tier, budget_check) ==
    IF ~budget_check.within_limits THEN REJECTED
    ELSE IF budget_check.auto_approve THEN AUTO_APPROVED
    ELSE PENDING

\* "Determine approval status": the branch request_approval takes
ApprovalBranch(cost_tier, budget_check) ==
    IF ~budget_check.within_limits THEN REJECTED
    ELSE IF budget_check.auto_approve /\ cost_tier \in {LOW} THEN AUTO_APPROVED
    ELSE PENDING

\* the AIServiceCost row request_approval ends with
NewCostEntry(creator_id, req, estimated_cost, cost_tier, budget_check, t) ==
    LET branch == ApprovalBranch(cost_tier, budget_check)
        base == [ creator_id       |-> creator_id,
                  service_type     |-> req.service_type,
                  estimated_cost   |-> estimated_cost,
                  cost_tier        |-> cost_tier,
                  approval_status  |-> PENDING,
                  requires_approval |-> ~budget_check.auto_approve,
                  approved_by      |-> NoOne,
                  approved_at      |-> NoTime,
                  rejection_reason |-> NoOne,
                  actual_cost      |-> NoCost,
                  is_processed     |-> FALSE ]
    IN  IF branch = REJECTED
        THEN [base EXCEPT !.approval_status = REJECTED,
                          !.rejection_reason = "Budget limits exceeded"]
        ELSE IF branch = AUTO_APPROVED
        THEN [base EXCEPT !.approval_status = AUTO_APPROVED,
                          !.approved_at = t,
                          !.requires_approval = FALSE]
        ELSE base

\* whether request_approval takes its last branch and adds an ApprovalRequest
NeedsApprovalRequest(cost_tier, budget_check) ==
    ApprovalBranch(cost_tier, budget_check) = PENDING

\* an approval request whose expiry is not offset from its creation
NewApprovalRequest_ExpiresAtOnce(cost_entry_id, creator_id, estimated_cost, cost_tier, t) ==
    [ cost_entry_id    |-> cost_entry_id,
      creator_id       |-> creator_id,
      estimated_cost   |-> estimated_cost,
      cost_tier        |-> cost_tier,
      status           |-> PENDING,
      approved_by      |-> NoOne,
      approval_method  |-> NoOne,
      expires_at       |-> t,
      approved_at      |-> NoTime,
      rejection_reason |-> NoOne,
      created_at       |-> t ]

NewApprovalRequest(cost_entry_id, creator_id, estimated_cost, cost_tier, t) ==
    [ cost_entry_id    |-> cost_entry_id,
      creator_id       |-> creator_id,
      estimated_cost   |-> estimated_cost,
      cost_tier        |-> cost_tier,
      status           |-> PENDING,
      approved_by      |-> NoOne,
      approval_method  |-> NoOne,
      expires_at       |-> t + ApprovalHours,
      approved_at      |-> NoTime,
      rejection_reason |-> NoOne,
      created_at       |-> t ]

\* a variant that stops at the first callback that raises
_send_approval_notification_StopAtRaise(request_id) ==
    LET first == {i \in 1..Len(approval_callbacks) : approval_callbacks[i].raises}
        last  == IF first = {} THEN Len(approval_callbacks)
                 ELSE CHOOSE i \in first : \A j \in first : i <= j
    IN  notified \o [i \in 1..last |->
                        [callback   |-> approval_callbacks[i].callback_name,
                         request_id |-> request_id]]

\* every callback of approval_callbacks is awaited with the request, in the
\* order of the dict; what a callback raises is logged and the loop goes on
_send_approval_notification(request_id) ==
    notified \o [i \in 1..Len(approval_callbacks) |->
                    [callback   |-> approval_callbacks[i].callback_name,
                     request_id |-> request_id]]

\* approval_callbacks[callback_name] = callback; raises tells whether the
\* callback raises when it is called
register_approval_callback(callback_name, raises) ==
    LET at == {i \in 1..Len(approval_callbacks) :
                  approval_callbacks[i].callback_name = callback_name}
        callback == [callback_name |-> callback_name, raises |-> raises]
    IN  /\ approval_callbacks' =
              IF at = {} THEN Append(approval_callbacks, callback)
              ELSE [i \in 1..Len(approval_callbacks) |->
                       IF i \in at THEN callback ELSE approval_callbacks[i]]
        /\ lastOp' = [NoOp EXCEPT !.op = "register_approval_callback"]
        /\ UNCHANGED <<now, budgets, costEntries, approvals, reconciled, notified,
                       tasks, cacheVars, tierVars, routerVars, keyVars>>

request_approval(creator_id, req) ==
    LET estimated_cost == estimate_cost(req.service_type, req.model, req.params)
        cost_tier      == determine_cost_tier(estimated_cost)
        budget_check   == check_budget_limits(budgets, creator_id, estimated_cost, now)
        cost_entry     == NewCostEntry(creator_id, req, estimated_cost, cost_tier,
                                       budget_check, now)
        cost_entry_id  == Len(costEntries) + 1
        spawn          == NeedsApprovalRequest(cost_tier, budget_check)
    IN  /\ Len(costEntries) < MaxEntries
        /\ budgets' = BudgetsAfterCheck(budgets, creator_id, now)
        /\ costEntries' = Append(costEntries, cost_entry)
        /\ approvals' = IF spawn
                        THEN Append(approvals,
                                    NewApprovalRequest(cost_entry_id, creator_id,
                                                       estimated_cost, cost_tier, now))
                        ELSE approvals
        /\ lastOp' = [op |-> "request_approval", arg |-> cost_entry_id, ok |-> TRUE,
                      status |-> cost_entry.approval_status,
                      request_id |-> IF spawn THEN Len(approvals) + 1 ELSE 0,
                      within_limits |-> budget_check.within_limits]
        \* "Send approval notifications if needed"
        /\ notified' = IF spawn
                       THEN _send_approval_notification(Len(approvals) + 1)
                       ELSE notified
        /\ UNCHANGED <<now, reconciled, approval_callbacks, tasks,
                       cacheVars, tierVars, routerVars, keyVars>>

\* the query without its status filter
FindPending_NoStatusFilter(id) == id \in 1..Len(approvals)

\* the query letting approved requests through as well
FindPending_OrApproved(id) ==
    id \in 1..Len(approvals) /\ approvals[id].status \in {PENDING, APPROVED}

\* the row the query of approve_request / reject_request finds:
\* id == approval_request_id and status == PENDING
FindPending(id) == id \in 1..Len(approvals) /\ approvals[id].status = PENDING

\* an expiry test that never fires
IsExpired_Never(approval_request, t) == FALSE

\* an expiry test with a grace period of another 24 hours
IsExpired_WithGrace(approval_request, t) ==
    approval_request.expires_at + ApprovalHours < t

\* the expiry test of approve_request
IsExpired(approval_request, t) == approval_request.expires_at < t

\* cost_entry.approval_status after a decision on its approval request
DecideCostEntry(cost_entry, status, by, t, reason) ==
    IF status = APPROVED
    THEN [cost_entry EXCEPT !.approval_status = APPROVED,
                            !.approved_by = by,
                            !.approved_at = t]
    ELSE [cost_entry EXCEPT !.approval_status = REJECTED,
                            !.rejection_reason = reason]

approve_request(approval_request_id, approved_by) ==
    /\ IF ~FindPending(approval_request_id)
       THEN /\ lastOp' = [NoOp EXCEPT !.op = "approve_request",
                                      !.arg = approval_request_id]
            /\ UNCHANGED <<approvals, costEntries>>
       ELSE LET approval_request == approvals[approval_request_id]
                ce == approval_request.cost_entry_id
            IN  IF IsExpired(approval_request, now)
                THEN /\ approvals' = [approvals EXCEPT
                                        ![approval_request_id].status = EXPIRED]
                     /\ lastOp' = [NoOp EXCEPT !.op = "approve_request",
                                               !.arg = approval_request_id]
                     /\ UNCHANGED costEntries
                ELSE /\ approvals' = [approvals EXCEPT
                                        ![approval_request_id].status = APPROVED,
                                        ![approval_request_id].approved_by = approved_by,
                                        ![approval_request_id].approved_at = now,
                                        ![approval_request_id].approval_method = "manual"]
                     /\ costEntries' =
                            IF ce \in 1..Len(costEntries)
                            THEN [costEntries EXCEPT
                                    ![ce] = DecideCostEntry(@, APPROVED, approved_by,
                                                            now, NoOne)]
                            ELSE costEntries
                     /\ lastOp' = [NoOp EXCEPT !.op = "approve_request",
                                               !.arg = approval_request_id,
                                               !.ok = TRUE]
    /\ UNCHANGED <<now, budgets, reconciled, approval_callbacks, notified, tasks,
                   cacheVars, tierVars, routerVars, keyVars>>

reject_request(approval_request_id, rejected_by, rejection_reason) ==
    /\ IF ~FindPending(approval_request_id)
       THEN /\ lastOp' = [NoOp EXCEPT !.op = "reject_request",
                                      !.arg = approval_request_id]
            /\ UNCHANGED <<approvals, costEntries>>
       ELSE LET ce == approvals[approval_request_id].cost_entry_id
            IN  /\ approvals' = [approvals EXCEPT
                                   ![approval_request_id].status = REJECTED,
                                   ![approval_request_id].rejection_reason = rejection_reason]
                /\ costEntries' =
                       IF ce \in 1..Len(costEntries)
                       THEN [costEntries EXCEPT
                               ![ce] = DecideCostEntry(@, REJECTED, rejected_by,
                                                       now, rejection_reason)]
                       ELSE costEntries
                /\ lastOp' = [NoOp EXCEPT !.op = "reject_request",
                                          !.arg = approval_request_id,
                                          !.ok = TRUE]
    /\ UNCHANGED <<now, budgets, reconciled, approval_callbacks, notified, tasks,
                   cacheVars, tierVars, routerVars, keyVars>>

\* budget.<period>_spent += actual_cost, as the commit stores it
AddSpent(budget, actual_cost) ==
    [budget EXCEPT !.daily_spent   = Numeric2(@ + actual_cost),
                   !.weekly_spent  = Numeric2(@ + actual_cost),
                   !.monthly_spent = Numeric2(@ + actual_cost)]

record_actual_cost(cost_entry_id, actual_cost) ==
    /\ reconciled < MaxRecords
    /\ reconciled' = reconciled + 1
    /\ IF cost_entry_id \in 1..Len(costEntries)
       THEN LET creator_id == costEntries[cost_entry_id].creator_id
            IN  /\ costEntries' = [costEntries EXCEPT
                                     ![cost_entry_id].actual_cost = actual_cost,
                                     ![cost_entry_id].is_processed = TRUE]
                /\ budgets' = IF creator_id \in DOMAIN budgets
                              THEN [budgets EXCEPT
                                      ![creator_id] = AddSpent(@, actual_cost)]
                              ELSE budgets
       ELSE UNCHANGED <<costEntries, budgets>>
    /\ lastOp' = [NoOp EXCEPT !.op = "record_actual_cost", !.arg = cost_entry_id,
                              !.ok = cost_entry_id \in 1..Len(costEntries)]
    /\ UNCHANGED <<now, approvals, approval_callbacks, notified, tasks,
                   cacheVars, tierVars, routerVars, keyVars>>

\* the clock moves between calls
TickSteps == {12, 24}

Tick(step) ==
    /\ now + step <= MaxTime
    /\ now' = now + step
    /\ UNCHANGED <<costVars, tasks, cacheVars, tierVars, routerVars, keyVars>>

-----------------------------------------------------------------------------
(* Initial states of the cost tracker *)

StartTime == 10        \* Monday 2024-01-01 10:00

EmptyTable == [c \in {} |-> 0]

\* budgets found in the table at start: none, or one for creator c1, made
\* on Friday 2023-12-29 at 22:00 with the daily period already rolled over:
\* daily reset Tuesday 00:00, weekly Monday 22:00, monthly Tuesday 22:00
SpentBudget ==
    [BudgetRow(24, 22, 46) EXCEPT !.daily_spent = USD(49), !.weekly_spent = USD(49),
                                    !.monthly_spent = USD(49)]

InitialBudgets == {
    EmptyTable,
    "c1" :> SpentBudget,
    "c1" :> [SpentBudget EXCEPT !.is_suspended = TRUE, !.daily_spent = 0,
                                !.weekly_spent = 0, !.monthly_spent = 0],
    "c1" :> [BudgetRow(24, 22, 46) EXCEPT !.auto_approve_threshold = 2000],
    "c1" :> [SpentBudget EXCEPT !.daily_limit = USD(100), !.monthly_limit = USD(1000),
                                !.daily_reset_at = StartTime,
                                !.weekly_reset_at = StartTime,
                                !.monthly_reset_at = StartTime] }

NoPayload == "none"

NoGet == [op |-> "none", strategy |-> "none", result |-> NoPayload, tier |-> "none",
          entry |-> <<>>]

IdleCache ==
    /\ redis_client = FALSE
    /\ redis = EmptyTable
    /\ redisUp = TRUE
    /\ dbUp = TRUE
    /\ cacheRows = EmptyTable
    /\ lastGet = NoGet

NoEstimate == [service_type |-> "none", model |-> "none", params |-> [c \in {} |-> 0]]

IdleEstimate == estimateIn = NoEstimate /\ estimateOut = NoCost

IdleTier == tierIn = 0 /\ tierOut = "none" /\ IdleEstimate

NoCall == [service_type |-> "none", tier |-> "none", invoked |-> <<>>,
           raised |-> "none", result |-> EmptyTable]

IdleRouter ==
    /\ ENVIRONMENT = "development"
    /\ mock_mode = FALSE
    /\ services = EmptyTable
    /\ lastCall = NoCall

IdleKey == keyIn = <<>> /\ keyOut = <<>>

IdleCost ==
    /\ budgets = EmptyTable
    /\ costEntries = <<>>
    /\ approvals = <<>>
    /\ lastOp = NoOp
    /\ reconciled = 0
    /\ approval_callbacks = <<>>
    /\ notified = <<>>

InitCost ==
    /\ now = StartTime
    /\ budgets \in InitialBudgets
    /\ costEntries = <<>>
    /\ approvals = <<>>
    /\ lastOp = NoOp
    /\ reconciled = 0
    /\ approval_callbacks = <<>>
    /\ notified = <<>>
    /\ tasks = <<>>
    /\ IdleCache
    /\ IdleTier
    /\ IdleRouter
    /\ IdleKey

NextCost ==
    \/ \E c \in Creators, req \in Requests : request_approval(c, req)
    \/ \E id \in 1..MaxEntries, by \in Operators : approve_request(id, by)
    \/ \E id \in 1..MaxEntries, by \in Operators, reason \in Reasons :
           reject_request(id, by, reason)
    \/ \E id \in 1..MaxEntries, a \in ActualCosts : record_actual_cost(id, a)
    \/ \E step \in TickSteps : Tick(step)

SpecCost == InitCost /\ [][NextCost]_vars

-----------------------------------------------------------------------------
(* Properties of the approval flow, checked under SpecCost *)

\* the step is a request_approval call: it added a cost entry
IsRequestStep == Len(costEntries') = Len(costEntries) + 1

NewEntry == costEntries'[Len(costEntries')]

\* the step is a call of op on approval request id
IsCallOn(op, id) ==
    /\ lastOp'.op = op
    /\ lastOp'.arg = id
    /\ (lastOp' # lastOp \/ approvals' # approvals)

\* a creator's budget as the limits apply to it: the stored row, or the
\* defaults for a creator that has none, a counter whose period has rolled
\* over counting as zero
CurrentBudget(c) ==
    IF c \in DOMAIN budgets THEN budgets[c] ELSE BudgetRow(now + 1, now + 1, now + 1)

SpentNow(spent, reset_at) == IF now >= reset_at THEN 0 ELSE spent

OverAnyLimit(c, estimate) ==
    LET b == CurrentBudget(c)
    IN  \/ SpentNow(b.daily_spent, b.daily_reset_at) + estimate > b.daily_limit
        \/ SpentNow(b.weekly_spent, b.weekly_reset_at) + estimate > b.weekly_limit
        \/ SpentNow(b.monthly_spent, b.monthly_reset_at) + estimate > b.monthly_limit

Suspended(c) == CurrentBudget(c).is_suspended

RequestsFor(entries_id, table) ==
    {r \in 1..Len(table) : table[r].cost_entry_id = entries_id}

\* C3: request_approval for a creator whose budget is suspended, or for whom
\* spent + estimate exceeds the daily, weekly or monthly limit, returns
\* normally with the cost entry REJECTED and creates no approval request.
C3_OverBudgetIsRejectedNotRaised ==
    [][ IsRequestStep =>
          ( (Suspended(NewEntry.creator_id)
               \/ OverAnyLimit(NewEntry.creator_id, NewEntry.estimated_cost))
            => /\ NewEntry.approval_status = REJECTED
               /\ approvals' = approvals
               /\ lastOp'.op = "request_approval"
               /\ lastOp'.ok
               /\ lastOp'.status = REJECTED
               /\ lastOp'.request_id = 0 ) ]_vars

\* a request of a suspended creator that fits every limit was rejected
C3_Witness ==
    /\ lastOp.op = "request_approval"
    /\ lastOp.status = REJECTED
    /\ Suspended(costEntries[lastOp.arg].creator_id)
    /\ ~OverAnyLimit(costEntries[lastOp.arg].creator_id,
                     costEntries[lastOp.arg].estimated_cost)
    /\ RequestsFor(lastOp.arg, approvals) = {}

\* C4: request_approval ends with the cost entry AUTO_APPROVED and no
\* approval request if and only if the budget check is within limits, the
\* estimate is at most the creator's auto-approve threshold and the cost tier
\* is LOW; a MEDIUM-tier estimate below the threshold is never auto-approved.
C4_AutoApprovedIffLowAndUnderThreshold ==
    [][ IsRequestStep =>
          LET c == NewEntry.creator_id
              estimate == NewEntry.estimated_cost
          IN  /\ (NewEntry.approval_status = AUTO_APPROVED /\ approvals' = approvals)
                 <=> ( /\ ~Suspended(c)
                       /\ ~OverAnyLimit(c, estimate)
                       /\ estimate <= CurrentBudget(c).auto_approve_threshold
                       /\ NewEntry.cost_tier = LOW )
              /\ NewEntry.cost_tier = MEDIUM
                 => NewEntry.approval_status # AUTO_APPROVED ]_vars

\* a MEDIUM estimate under the threshold and within every limit was left
\* pending with an approval request
C4_Witness ==
    \E j \in 1..Len(costEntries) :
        /\ lastOp.op = "request_approval"
        /\ lastOp.arg = j
        /\ lastOp.within_limits
        /\ costEntries[j].cost_tier = MEDIUM
        /\ costEntries[j].estimated_cost
             <= CurrentBudget(costEntries[j].creator_id).auto_approve_threshold
        /\ costEntries[j].approval_status = PENDING
        /\ RequestsFor(j, approvals) # {}

\* C5: request_approval creates an approval request exactly when the outcome
\* is neither REJECTED nor AUTO_APPROVED; the cost entry is then PENDING and
\* has exactly one approval request, which starts PENDING and expires 24
\* hours after its creation.
C5_ApprovalRequestIffDeliberation ==
    [][ IsRequestStep =>
          LET n == Len(costEntries')
              deliberate == NewEntry.approval_status \notin {REJECTED, AUTO_APPROVED}
          IN  /\ (approvals' # approvals) <=> deliberate
              /\ \A e \in 1..n : Cardinality(RequestsFor(e, approvals')) <= 1
              /\ deliberate =>
                   /\ NewEntry.approval_status = PENDING
                   /\ Len(approvals') = Len(approvals) + 1
                   /\ SubSeq(approvals', 1, Len(approvals)) = approvals
                   /\ RequestsFor(n, approvals') = {Len(approvals')}
                   /\ approvals'[Len(approvals')].status = PENDING
                   /\ approvals'[Len(approvals')].created_at = now
                   /\ approvals'[Len(approvals')].expires_at
                        = approvals'[Len(approvals')].created_at + 24 ]_vars

\* a request was left pending with its approval request
C5_Witness ==
    /\ lastOp.op = "request_approval"
    /\ lastOp.status = PENDING
    /\ lastOp.request_id \in 1..Len(approvals)
    /\ approvals[lastOp.request_id].cost_entry_id = lastOp.arg
    /\ approvals[lastOp.request_id].expires_at = now + 24

\* the approval columns of a cost entry
ApprovalColumns(cost_entry) ==
    <<cost_entry.approval_status, cost_entry.approved_by, cost_entry.approved_at,
      cost_entry.rejection_reason, cost_entry.requires_approval>>

Terminal(id) == approvals[id].status \in {APPROVED, REJECTED, EXPIRED}

PastExpiry(id) == approvals[id].status = PENDING /\ now > approvals[id].expires_at

\* C6: an approval request leaves PENDING at most once: once it is APPROVED,
\* REJECTED or EXPIRED every later approve_request or reject_request call on
\* it returns false and leaves the request and its cost entry unchanged.
C6_TerminalRequestIsFrozen ==
    [][ \A id \in 1..Len(approvals) :
          Terminal(id) =>
            /\ approvals'[id] = approvals[id]
            /\ ApprovalColumns(costEntries'[approvals[id].cost_entry_id])
                 = ApprovalColumns(costEntries[approvals[id].cost_entry_id])
            /\ \A op \in {"approve_request", "reject_request"} :
                 IsCallOn(op, id) => ~lastOp'.ok /\ costEntries' = costEntries ]_vars

\* a decided request was called on again and the call failed
C6_Witness ==
    /\ lastOp.op \in {"approve_request", "reject_request"}
    /\ ~lastOp.ok
    /\ lastOp.arg \in 1..Len(approvals)
    /\ approvals[lastOp.arg].status \in {APPROVED, REJECTED}
    /\ (lastOp.op = "approve_request") = (approvals[lastOp.arg].status = REJECTED)

\* C7: approve_request on a PENDING approval request whose expires_at is in
\* the past sets the request EXPIRED, returns false and does not mark the
\* linked cost entry APPROVED.
C7_ApproveAfterExpiryExpires ==
    [][ \A id \in 1..Len(approvals) :
          (PastExpiry(id) /\ IsCallOn("approve_request", id)) =>
            /\ approvals'[id] = [approvals[id] EXCEPT !.status = EXPIRED]
            /\ ~lastOp'.ok
            /\ costEntries' = costEntries
            /\ costEntries'[approvals[id].cost_entry_id].approval_status = PENDING ]_vars

\* an approval came too late: the request is EXPIRED, its cost entry PENDING
C7_Witness ==
    /\ lastOp.op = "approve_request"
    /\ ~lastOp.ok
    /\ lastOp.arg \in 1..Len(approvals)
    /\ approvals[lastOp.arg].status = EXPIRED
    /\ approvals[lastOp.arg].expires_at < now
    /\ costEntries[approvals[lastOp.arg].cost_entry_id].approval_status = PENDING

-----------------------------------------------------------------------------
(* determine_cost_tier on its own, checked under SpecTier *)

\* the costs classified: those within Probe units of each band edge, and
\* one far inside the last band
TierInputs ==
    {c \in {edge + d : edge \in {0, USD(1), USD(10), USD(100)}, d \in (0 - Probe)..Probe} :
        c >= 0} \cup {USD(200)}

InitTier ==
    /\ tierIn \in TierInputs
    /\ tierOut = "none"
    /\ IdleEstimate
    /\ IdleRouter
    /\ IdleKey
    /\ now = StartTime
    /\ IdleCost
    /\ tasks = <<>>
    /\ IdleCache

Classify ==
    /\ tierOut = "none"
    /\ tierOut' = determine_cost_tier(tierIn)
    /\ UNCHANGED <<tierIn, estimateIn, estimateOut, now, costVars, tasks, cacheVars,
                   routerVars, keyVars>>

NextTier == Classify

SpecTier == InitTier /\ [][NextTier]_vars

-----------------------------------------------------------------------------
(* Concurrent requests of one creator, checked under SpecRace.             *)
(* Each task runs request_approval and, when the entry is approved,       *)
(* record_actual_cost; a task is suspended at each await on the database. *)

RaceRequests == {
    [service_type |-> RUNWAY_VIDEO, model |-> "gen-2", params |-> [duration |-> 24]],
    [service_type |-> RUNWAY_VIDEO, model |-> "gen-2", params |-> [duration |-> 48]] }

NewTask(req) ==
    [ pc |-> "start", creator_id |-> "c1", req |-> req,
      estimated_cost |-> NoCost, cost_tier |-> "none",
      budget_check |-> <<>>,       \* the dictionary check_budget_limits returned
      cost_entry_id |-> 0,
      budget |-> <<>> ]            \* the row record_actual_cost loaded

InitRace ==
    /\ now = StartTime
    /\ budgets = ("c1" :> SpentBudget)
    /\ costEntries = <<>>
    /\ approvals = <<>>
    /\ lastOp = NoOp
    /\ reconciled = 0
    /\ approval_callbacks = <<>>
    /\ notified = <<>>
    /\ tasks \in [1..NTasks -> {NewTask(req) : req \in RaceRequests}]
    /\ IdleCache
    /\ IdleTier
    /\ IdleRouter
    /\ IdleKey

\* request_approval up to the end of check_budget_limits: the estimate, the
\* tier, and the budget row as the query finds it
TaskCheckBudget(i) ==
    LET t == tasks[i]
        estimated_cost == estimate_cost(t.req.service_type, t.req.model, t.req.params)
    IN  /\ t.pc = "start"
        /\ budgets' = BudgetsAfterCheck(budgets, t.creator_id, now)
        /\ tasks' = [tasks EXCEPT ![i] =
                       [t EXCEPT !.pc = "checked",
                                 !.estimated_cost = estimated_cost,
                                 !.cost_tier = determine_cost_tier(estimated_cost),
                                 !.budget_check =
                                    <<check_budget_limits(budgets, t.creator_id,
                                                          estimated_cost, now)>>]]
        /\ UNCHANGED <<now, costEntries, approvals, lastOp, reconciled,
                       approval_callbacks, notified,
                       cacheVars, tierVars, routerVars, keyVars>>

\* the rest of request_approval: the cost entry and its approval request
TaskCreateEntry(i) ==
    LET t == tasks[i]
        budget_check == t.budget_check[1]
        cost_entry == NewCostEntry(t.creator_id, t.req, t.estimated_cost, t.cost_tier,
                                   budget_check, now)
        cost_entry_id == Len(costEntries) + 1
    IN  /\ t.pc = "checked"
        /\ costEntries' = Append(costEntries, cost_entry)
        /\ approvals' = IF NeedsApprovalRequest(t.cost_tier, budget_check)
                        THEN Append(approvals,
                                    NewApprovalRequest(cost_entry_id, t.creator_id,
                                                       t.estimated_cost, t.cost_tier, now))
                        ELSE approvals
        /\ tasks' = [tasks EXCEPT ![i] =
                       [t EXCEPT !.pc = IF cost_entry.approval_status = AUTO_APPROVED
                                        THEN "approved" ELSE "done",
                                 !.cost_entry_id = cost_entry_id]]
        /\ notified' = IF NeedsApprovalRequest(t.cost_tier, budget_check)
                       THEN _send_approval_notification(Len(approvals) + 1)
                       ELSE notified
        /\ UNCHANGED <<now, budgets, lastOp, reconciled, approval_callbacks,
                       cacheVars, tierVars, routerVars, keyVars>>

\* record_actual_cost up to its second query: the budget row is loaded
TaskRecordLoad(i) ==
    LET t == tasks[i]
    IN  /\ t.pc = "approved"
        /\ tasks' = [tasks EXCEPT ![i] =
                       [t EXCEPT !.pc = "recording",
                                 !.budget = IF t.creator_id \in DOMAIN budgets
                                            THEN <<budgets[t.creator_id]>> ELSE <<>>]]
        /\ UNCHANGED <<now, costVars, cacheVars, tierVars, routerVars, keyVars>>

\* the commit of record_actual_cost: the counters computed on the loaded row
\* are written; the provider billed what was estimated
TaskRecordCommit(i) ==
    LET t == tasks[i]
        actual_cost == t.estimated_cost
    IN  /\ t.pc = "recording"
        /\ costEntries' = [costEntries EXCEPT
                             ![t.cost_entry_id].actual_cost = actual_cost,
                             ![t.cost_entry_id].is_processed = TRUE]
        /\ budgets' = IF Len(t.budget) = 1
                      THEN LET written == AddSpent(t.budget[1], actual_cost)
                           IN  [budgets EXCEPT
                                  ![t.creator_id].daily_spent = written.daily_spent,
                                  ![t.creator_id].weekly_spent = written.weekly_spent,
                                  ![t.creator_id].monthly_spent = written.monthly_spent]
                      ELSE budgets
        /\ reconciled' = reconciled + 1
        /\ tasks' = [tasks EXCEPT ![i] = [t EXCEPT !.pc = "done"]]
        /\ UNCHANGED <<now, approvals, lastOp, approval_callbacks, notified,
                       cacheVars, tierVars, routerVars, keyVars>>

NextRace ==
    \E i \in 1..NTasks :
        \/ TaskCheckBudget(i)
        \/ TaskCreateEntry(i)
        \/ TaskRecordLoad(i)
        \/ TaskRecordCommit(i)

SpecRace == InitRace /\ [][NextRace]_vars

PassedCheck(i) ==
    /\ Len(tasks[i].budget_check) = 1
    /\ tasks[i].budget_check[1].within_limits

EstimateOf(i) ==
    estimate_cost(tasks[i].req.service_type, tasks[i].req.model, tasks[i].req.params)

\* the budget the tasks start from can pay for either request, not for both
AffordsOnlyOne(i, j) ==
    /\ SpentBudget.daily_spent + EstimateOf(i) <= SpentBudget.daily_limit
    /\ SpentBudget.daily_spent + EstimateOf(j) <= SpentBudget.daily_limit
    /\ SpentBudget.daily_spent + EstimateOf(i) + EstimateOf(j) > SpentBudget.daily_limit

\* C1: for two requests of the same creator whose budget can afford only one
\* of them, no interleaving of their check_budget_limits, request_approval
\* and record_actual_cost steps lets both pass the budget check.
C1_OnlyOnePassesBudgetCheck ==
    \A i, j \in 1..NTasks :
        (i # j /\ tasks[i].creator_id = tasks[j].creator_id /\ AffordsOnlyOne(i, j))
          => ~(PassedCheck(i) /\ PassedCheck(j))

-----------------------------------------------------------------------------
(* Content Cache (content_cache.py), checked under SpecCache.              *)
(*                                                                         *)
(* A string is a sequence of items: " " is whitespace, any other item is   *)
(* a run of letters.  A parameter value carries its Python type:           *)
(* [t |-> "str", v |-> <<...>>] or [t |-> "int", v |-> n].                 *)

SCRIPT           == "script"
IMAGE            == "image"
VOICE            == "voice"
VIDEO            == "video"
MUSIC            == "music"
QUIZ             == "quiz"
COMPLETE_CONTENT == "complete_content"

EXACT_MATCH    == "exact_match"
SEMANTIC_MATCH == "semantic_match"
TEMPLATE_MATCH == "template_match"
FUZZY_MATCH    == "fuzzy_match"
CacheStrategy  == {EXACT_MATCH, SEMANTIC_MATCH, TEMPLATE_MATCH, FUZZY_MATCH}
NoStrategy     == "None"

\* ttl is kept in hours (the source gives seconds: 86400 * days)
cache_config(cache_type) ==
    CASE cache_type = SCRIPT           -> [ttl |-> 24 * 30, strategy |-> SEMANTIC_MATCH]
      [] cache_type = IMAGE            -> [ttl |-> 24 * 7,  strategy |-> FUZZY_MATCH]
      [] cache_type = VOICE            -> [ttl |-> 24 * 14, strategy |-> EXACT_MATCH]
      [] cache_type = VIDEO            -> [ttl |-> 24 * 7,  strategy |-> TEMPLATE_MATCH]
      [] cache_type = QUIZ             -> [ttl |-> 24 * 60, strategy |-> SEMANTIC_MATCH]
      [] cache_type = COMPLETE_CONTENT -> [ttl |-> 24 * 14, strategy |-> EXACT_MATCH]

StrVal(v) == [t |-> "str", v |-> v]
IntVal(n) == [t |-> "int", v |-> n]

\* str.lower(), item by item
LowerItem(c) == IF c = "Water" THEN "water" ELSE c

lower(s) == [i \in 1..Len(s) |-> LowerItem(s[i])]

\* str.split(): the maximal runs of non-whitespace items
RECURSIVE SplitFrom(_, _, _)
SplitFrom(s, word, words) ==
    IF s = <<>>
    THEN IF word = <<>> THEN words ELSE Append(words, word)
    ELSE IF Head(s) = " "
         THEN SplitFrom(Tail(s), <<>>, IF word = <<>> THEN words ELSE Append(words, word))
         ELSE SplitFrom(Tail(s), Append(word, Head(s)), words)

split(s) == SplitFrom(s, <<>>, <<>>)

\* " ".join(words)
RECURSIVE join(_)
join(words) ==
    IF words = <<>> THEN <<>>
    ELSE IF Len(words) = 1 THEN words[1]
    ELSE words[1] \o <<" ">> \o join(Tail(words))

\* the values of the modelled requests are strings and integers
_normalize_parameters(parameters) ==
    [key \in DOMAIN parameters |->
        IF parameters[key].t = "str"
        THEN StrVal(join(split(lower(parameters[key].v))))
        ELSE parameters[key]]

\* The key is the cache type and a digest of the normalized parameters
\* written with sorted keys; the digest is kept as the mapping it is taken of.
_create_cache_key(cache_type, parameters) ==
    [cache_type |-> cache_type, digest |-> _normalize_parameters(parameters)]

\* str(value), for a value that is compared as text
IntText(n) == IF n = 30 THEN <<"30">> ELSE IF n = 32 THEN <<"32">> ELSE <<"int">>

TextOf(value) == IF value.t = "str" THEN value.v ELSE IntText(value.v)

WordSet(text) == {split(text)[i] : i \in 1..Len(split(text))}

\* _calculate_text_similarity, as the fraction <<numerator, denominator>>
_calculate_text_similarity(text1, text2) ==
    LET words1 == WordSet(text1)
        words2 == WordSet(text2)
    IN  IF words1 = {} \/ words2 = {}
        THEN <<0, 1>>
        ELSE <<Cardinality(words1 \cap words2), Cardinality(words1 \cup words2)>>

\* similarity >= 0.8 and similarity > 0.8, on fractions
AtLeastThreshold(sim) == 5 * sim[1] >= 4 * sim[2]
AboveThreshold_OrEqual(sim) == 5 * sim[1] >= 4 * sim[2]
AboveThreshold(sim)   == 5 * sim[1] > 4 * sim[2]
Greater(sim1, sim2)   == sim1[1] * sim2[2] > sim2[1] * sim1[2]

ValEq(a, b) == a.t = b.t /\ a.v = b.v

Max(a, b) == IF a >= b THEN a ELSE b
Abs(a)    == IF a >= 0 THEN a ELSE -a

\* the similarity of one soft key is at least the threshold
SoftKeyMatches(val1, val2) ==
    IF val1.t = "int" /\ val2.t = "int"
    THEN IF val1.v = 0 \/ val2.v = 0
         THEN val1.v = val2.v
         ELSE 5 * Abs(val1.v - val2.v) <= Max(val1.v, val2.v)
    ELSE AtLeastThreshold(_calculate_text_similarity(TextOf(val1), TextOf(val2)))

HardKeyEq(params1, params2, key) ==
    IF key \in DOMAIN params1
    THEN key \in DOMAIN params2 /\ ValEq(params1[key], params2[key])
    ELSE key \notin DOMAIN params2

\* a variant that accepts when half of the soft keys are similar enough
_parameters_fuzzy_match_HalfTheKeys(params1, params2) ==
    LET fuzzy_params == {"difficulty_level", "duration"}
        both    == {key \in fuzzy_params : key \in DOMAIN params1 /\ key \in DOMAIN params2}
        total   == Cardinality(both)
        matches == Cardinality({key \in both : SoftKeyMatches(params1[key], params2[key])})
    IN  /\ HardKeyEq(params1, params2, "age_group")
        /\ HardKeyEq(params1, params2, "subject_area")
        /\ (total = 0 \/ 2 * matches >= total)

_parameters_fuzzy_match(params1, params2) ==
    LET fuzzy_params == {"difficulty_level", "duration"}
        both    == {key \in fuzzy_params : key \in DOMAIN params1 /\ key \in DOMAIN params2}
        total   == Cardinality(both)
        matches == Cardinality({key \in both : SoftKeyMatches(params1[key], params2[key])})
    IN  /\ HardKeyEq(params1, params2, "age_group")
        /\ HardKeyEq(params1, params2, "subject_area")
        /\ (total = 0 \/ 5 * matches >= 4 * total)

TemplateKeys == {"age_group", "subject_area", "difficulty_level", "video_duration"}

\* a variant that compares every parameter of the request
_template_parameters_match_AllParameters(parameters, stored_params) ==
    \A key \in DOMAIN parameters :
        key \in DOMAIN stored_params /\ ValEq(stored_params[key], parameters[key])

\* template_params holds parameters.get(key): a key the request lacks is None
_template_parameters_match(parameters, stored_params) ==
    \A key \in TemplateKeys :
        key \in DOMAIN parameters =>
            (key \in DOMAIN stored_params /\ ValEq(stored_params[key], parameters[key]))

\* "Water cycle", " water  cycle " and "cycle"
WaterCycle == [prompt       |-> StrVal(<<"Water", " ", "cycle">>),
               age_group    |-> StrVal(<<"kids">>),
               subject_area |-> StrVal(<<"science">>),
               duration     |-> IntVal(30)]

CacheParameters == {
    WaterCycle,
    [WaterCycle EXCEPT !.prompt = StrVal(<<" ", "water", " ", " ", "cycle", " ">>)],
    [WaterCycle EXCEPT !.prompt = StrVal(<<"cycle">>), !.duration = IntVal(32)] }

CacheTypes == {IMAGE, VOICE}
Payloads   == {"payload1", "payload2"}
CacheTickSteps == {120}

\* what a stored value belongs to: the expiry and the flag of its entry
EntryOf(row) == [expires_at |-> row.expires_at, is_active |-> row.is_active]

\* redis.setex(key, ttl, data); entry is kept beside the value to tell
\* which entry it was written for, the fast tier does not read it
setex(cache_key, ttl, data, entry) ==
    [k \in DOMAIN redis \cup {cache_key} |->
        IF k = cache_key
        THEN [data |-> data, expires |-> now + ttl, entry |-> entry]
        ELSE redis[k]]

\* redis.get(key): a key lives until its own expiry
RedisHolds(cache_key) ==
    cache_key \in DOMAIN redis /\ redis[cache_key].expires > now

Called(op, strategy, result, tier, entry) ==
    [op |-> op, strategy |-> strategy, result |-> result, tier |-> tier,
     entry |-> entry]

CountHit(rows, cache_key) ==
    [rows EXCEPT ![cache_key].hit_count = @ + 1,
                 ![cache_key].last_accessed = now]

HitsBounded == \A k \in DOMAIN cacheRows : cacheRows[k].hit_count < MaxHits

cache_content(cache_type, parameters, content) ==
    LET cache_key  == _create_cache_key(cache_type, parameters)
        ttl        == cache_config(cache_type).ttl
        expires_at == now + ttl
        cache_entry ==
            [ cache_type        |-> cache_type,
              content_hash      |-> content,
              normalized_params |-> _normalize_parameters(parameters),
              content_data      |-> content,
              hit_count         |-> 0,
              last_accessed     |-> NoTime,
              expires_at        |-> expires_at,
              is_active         |-> TRUE ]
    IN  /\ Cardinality(DOMAIN cacheRows \cup DOMAIN redis \cup {cache_key}) <= MaxKeys
        /\ redis' = IF redis_client /\ redisUp
                    THEN setex(cache_key, ttl, content, EntryOf(cache_entry))
                    ELSE redis
        \* the insert of a second row with the same cache_key is refused
        /\ cacheRows' = IF dbUp /\ cache_key \notin DOMAIN cacheRows
                        THEN [k \in DOMAIN cacheRows \cup {cache_key} |->
                                IF k = cache_key THEN cache_entry ELSE cacheRows[k]]
                        ELSE cacheRows
        /\ lastGet' = Called("cache_content", NoStrategy, NoPayload, "none", <<>>)
        /\ UNCHANGED <<now, costVars, tasks, redis_client, redisUp, dbUp, tierVars, routerVars, keyVars>>

\* the statistics are written whether or not the durable tier answers
_update_cache_stats_TierAnswers(cache_key) ==
    IF cache_key \in DOMAIN cacheRows
    THEN CountHit(cacheRows, cache_key)
    ELSE cacheRows

_update_cache_stats(cache_key) ==
    IF dbUp /\ cache_key \in DOMAIN cacheRows
    THEN CountHit(cacheRows, cache_key)
    ELSE cacheRows

Unexpired(row) == row.is_active /\ row.expires_at > now

_get_exact_match(cache_type, parameters) ==
    LET cache_key == _create_cache_key(cache_type, parameters)
        ttl       == cache_config(cache_type).ttl
    IN  IF redis_client /\ redisUp /\ RedisHolds(cache_key)
        THEN /\ cacheRows' = _update_cache_stats(cache_key)
             /\ redis' = redis
             /\ lastGet' = Called("get_cached_content", EXACT_MATCH,
                                  redis[cache_key].data, "redis",
                                  <<redis[cache_key].entry>>)
        ELSE IF dbUp /\ cache_key \in DOMAIN cacheRows /\ Unexpired(cacheRows[cache_key])
        THEN LET cache_entry == cacheRows[cache_key]
             IN  /\ cacheRows' = CountHit(cacheRows, cache_key)
                 /\ redis' = IF redis_client /\ redisUp
                             THEN setex(cache_key, ttl, cache_entry.content_data,
                                        EntryOf(cache_entry))
                             ELSE redis
                 \* a setex that raises is caught by the handler of the lookup
                 /\ lastGet' = IF redis_client /\ ~redisUp
                               THEN Called("get_cached_content", EXACT_MATCH,
                                           NoPayload, "none", <<>>)
                               ELSE Called("get_cached_content", EXACT_MATCH,
                                           cache_entry.content_data, "db",
                                           <<EntryOf(cache_entry)>>)
        ELSE /\ UNCHANGED <<cacheRows, redis>>
             /\ lastGet' = Called("get_cached_content", EXACT_MATCH, NoPayload,
                                  "none", <<>>)

\* the rows a strategy's query selects
Selected(cache_type) ==
    {k \in DOMAIN cacheRows :
        cacheRows[k].cache_type = cache_type /\ Unexpired(cacheRows[k])}

\* a lookup in the durable tier alone: one of the matching rows is returned,
\* or none when the tier fails or nothing matches
DurableLookup(strategy, matching) ==
    /\ redis' = redis
    /\ IF dbUp /\ matching # {}
       THEN \E k \in matching :
               /\ cacheRows' = CountHit(cacheRows, k)
               /\ lastGet' = Called("get_cached_content", strategy,
                                    cacheRows[k].content_data, "db",
                                    <<EntryOf(cacheRows[k])>>)
       ELSE /\ cacheRows' = cacheRows
            /\ lastGet' = Called("get_cached_content", strategy, NoPayload,
                                 "none", <<>>)

ConceptOf(params) == Get(params, "concept", Get(params, "prompt", StrVal(<<>>)))

_get_semantic_match(cache_type, parameters) ==
    LET concept   == ConceptOf(parameters)
        age_group == Get(parameters, "age_group", StrVal(<<>>))
        similar_entries ==
            {k \in Selected(cache_type) :
                /\ "age_group" \in DOMAIN cacheRows[k].normalized_params
                /\ ValEq(cacheRows[k].normalized_params.age_group, age_group)}
        similarity(k) ==
            _calculate_text_similarity(
                lower(TextOf(concept)),
                lower(TextOf(ConceptOf(cacheRows[k].normalized_params))))
        \* the scan keeps the first entry of the highest similarity above 0.8
        best == {k \in similar_entries :
                    /\ AboveThreshold(similarity(k))
                    /\ \A j \in similar_entries : ~Greater(similarity(j), similarity(k))}
    IN  DurableLookup(SEMANTIC_MATCH, IF TextOf(concept) = <<>> THEN {} ELSE best)

_get_fuzzy_match(cache_type, parameters) ==
    LET normalized_params == _normalize_parameters(parameters)
    IN  DurableLookup(FUZZY_MATCH,
            {k \in Selected(cache_type) :
                _parameters_fuzzy_match(normalized_params,
                                        cacheRows[k].normalized_params)})

_get_template_match(cache_type, parameters) ==
    DurableLookup(TEMPLATE_MATCH,
        {k \in Selected(cache_type) :
            _template_parameters_match(parameters, cacheRows[k].normalized_params)})

get_cached_content(cache_type, parameters, strategy) ==
    LET chosen == IF strategy = NoStrategy
                  THEN cache_config(cache_type).strategy ELSE strategy
    IN  /\ HitsBounded
        /\ CASE chosen = EXACT_MATCH    -> _get_exact_match(cache_type, parameters)
             [] chosen = SEMANTIC_MATCH -> _get_semantic_match(cache_type, parameters)
             [] chosen = FUZZY_MATCH    -> _get_fuzzy_match(cache_type, parameters)
             [] chosen = TEMPLATE_MATCH -> _get_template_match(cache_type, parameters)
        /\ UNCHANGED <<now, costVars, tasks, redis_client, redisUp, dbUp, tierVars, routerVars, keyVars>>

cleanup_expired_cache ==
    /\ cacheRows' = IF dbUp
                    THEN [k \in {j \in DOMAIN cacheRows : ~(cacheRows[j].expires_at < now)}
                            |-> cacheRows[k]]
                    ELSE cacheRows
    /\ lastGet' = Called("cleanup_expired_cache", NoStrategy, NoPayload, "none", <<>>)
    /\ UNCHANGED <<now, costVars, tasks, redis_client, redis, redisUp, dbUp, tierVars, routerVars, keyVars>>

\* the fast tier starts or stops answering
FastTierFlips ==
    /\ redis_client
    /\ redisUp' = ~redisUp
    /\ UNCHANGED <<now, costVars, tasks, redis_client, redis, dbUp, cacheRows,
                   lastGet, tierVars, routerVars, keyVars>>

\* the durable tier starts or stops answering
DurableTierFlips ==
    /\ dbUp' = ~dbUp
    /\ UNCHANGED <<now, costVars, tasks, redis_client, redis, redisUp, cacheRows,
                   lastGet, tierVars, routerVars, keyVars>>

\* time passes; the fast tier drops the keys whose expiry is reached
CacheTick(step) ==
    /\ now + step <= MaxCacheTime
    /\ now' = now + step
    /\ redis' = [k \in {j \in DOMAIN redis : redis[j].expires > now + step} |-> redis[k]]
    /\ lastGet' = NoGet
    /\ UNCHANGED <<costVars, tasks, redis_client, redisUp, dbUp, cacheRows, tierVars, routerVars, keyVars>>

InitCache ==
    /\ now = StartTime
    /\ redis_client \in BOOLEAN
    /\ redis = EmptyTable
    /\ redisUp = TRUE
    /\ dbUp = TRUE
    /\ cacheRows = EmptyTable
    /\ lastGet = NoGet
    /\ tasks = <<>>
    /\ IdleCost
    /\ IdleTier
    /\ IdleRouter
    /\ IdleKey

NextCache ==
    \/ \E cache_type \in CacheTypes, parameters \in CacheParameters, content \in Payloads :
          cache_content(cache_type, parameters, content)
    \/ \E cache_type \in CacheTypes, parameters \in CacheParameters,
          strategy \in CacheStrategy \cup {NoStrategy} :
          get_cached_content(cache_type, parameters, strategy)
    \/ cleanup_expired_cache
    \/ FastTierFlips
    \/ DurableTierFlips
    \/ \E step \in CacheTickSteps : CacheTick(step)

SpecCache == InitCache /\ [][NextCache]_vars

Returned == lastGet.op = "get_cached_content" /\ lastGet.result # NoPayload

\* C2: after any sequence of cache_content, get_cached_content,
\* cleanup_expired_cache and clock advances, get_cached_content never returns
\* the payload of an entry whose expires_at has passed or whose is_active
\* flag is false, whichever tier serves it.
C2_NeverReturnsExpiredOrInactive ==
    Returned => /\ lastGet.entry[1].is_active
                /\ ~(lastGet.entry[1].expires_at < now)

-----------------------------------------------------------------------------
(* Properties of the budget ledger, checked under SpecCost *)

\* the dictionary the budget check of the request_approval step returned
StepCheck ==
    check_budget_limits(budgets, NewEntry.creator_id, NewEntry.estimated_cost, now)

\* C11: check_budget_limits reports within_limits = true if and only if
\* spent + estimate <= limit holds for the daily, the weekly and the monthly
\* period at once and the budget is not suspended, and reports each remaining
\* amount as limit - (spent + estimate); a request over a limit ends REJECTED.
C11_WithinLimitsIffAllPeriodsFit ==
    [][ IsRequestStep =>
          LET c == NewEntry.creator_id
              estimate == NewEntry.estimated_cost
              b == CurrentBudget(c)
          IN  /\ lastOp'.within_limits = StepCheck.within_limits
              /\ StepCheck.within_limits <=> (~OverAnyLimit(c, estimate) /\ ~Suspended(c))
              /\ StepCheck.daily_remaining =
                    b.daily_limit - (SpentNow(b.daily_spent, b.daily_reset_at) + estimate)
              /\ StepCheck.weekly_remaining =
                    b.weekly_limit - (SpentNow(b.weekly_spent, b.weekly_reset_at) + estimate)
              /\ StepCheck.monthly_remaining =
                    b.monthly_limit - (SpentNow(b.monthly_spent, b.monthly_reset_at) + estimate)
              /\ ~StepCheck.within_limits => NewEntry.approval_status = REJECTED ]_vars

\* daily limit 50.00, spent 49.00, estimate 2.00: the request was rejected
\* with a daily remaining of -1.00
C11_Witness ==
    /\ lastOp.op = "request_approval"
    /\ ~lastOp.within_limits
    /\ lastOp.status = REJECTED
    /\ costEntries[lastOp.arg].estimated_cost = USD(2)
    /\ "c1" \in DOMAIN budgets
    /\ budgets["c1"].daily_limit = USD(50)
    /\ budgets["c1"].daily_spent = USD(49)
    /\ now < budgets["c1"].daily_reset_at
    /\ ~budgets["c1"].is_suspended
    /\ check_budget_limits(budgets, "c1", USD(2), now).daily_remaining = -USD(1)

\* the step is a record_actual_cost call that found its cost entry
IsRecordStep == reconciled' = reconciled + 1 /\ lastOp'.ok

RecordedEntry == costEntries'[lastOp'.arg]

\* C12: after N record_actual_cost calls for one creator whose actual costs
\* total S, starting from zero spent and with no period reset in between,
\* each stored spent counter equals S exactly; stated for the first call.
C12_SpentEqualsSumOfActualCosts ==
    [][ ( /\ IsRecordStep
          /\ RecordedEntry.creator_id \in DOMAIN budgets
          /\ budgets[RecordedEntry.creator_id].daily_spent = 0
          /\ budgets[RecordedEntry.creator_id].weekly_spent = 0
          /\ budgets[RecordedEntry.creator_id].monthly_spent = 0 )
        => LET after == budgets'[RecordedEntry.creator_id]
           IN  /\ after.daily_spent = RecordedEntry.actual_cost
               /\ after.weekly_spent = RecordedEntry.actual_cost
               /\ after.monthly_spent = RecordedEntry.actual_cost ]_vars

Periods == {"daily", "weekly", "monthly"}

SpentOf(budget, period) ==
    CASE period = "daily"   -> budget.daily_spent
      [] period = "weekly"  -> budget.weekly_spent
      [] period = "monthly" -> budget.monthly_spent

\* C13: a creator's daily, weekly and monthly spent counters are increased
\* only by record_actual_cost, each by exactly the actual cost; no other call
\* increases them, and they decrease only by a period reset to zero.
C13_SpentChangesOnlyByActualCost ==
    [][ \A c \in DOMAIN budgets, period \in Periods :
          LET before == SpentOf(budgets[c], period)
              after  == SpentOf(budgets'[c], period)
          IN  IF IsRecordStep /\ RecordedEntry.creator_id = c
              THEN after = before + RecordedEntry.actual_cost
              ELSE after = before \/ after = 0 ]_vars

-----------------------------------------------------------------------------
(* Service Router (ai_service_manager.py, config.py), checked under        *)
(* SpecRouter.  What a provider call ends in is the provider's: a payload  *)
(* or an error.  In mock mode an adapter makes no provider call.           *)

PREMIUM  == "premium"
STANDARD == "standard"
BUDGET   == "budget"
ServiceTier == {PREMIUM, STANDARD, BUDGET}

TEXT_GENERATION   == "text_generation"
IMAGE_GENERATION  == "image_generation"
VOICE_SYNTHESIS   == "voice_synthesis"
VIDEO_GENERATION  == "video_generation"
MUSIC_GENERATION  == "music_generation"
AVATAR_GENERATION == "avatar_generation"
ServiceType == {TEXT_GENERATION, IMAGE_GENERATION, VOICE_SYNTHESIS,
                VIDEO_GENERATION, MUSIC_GENERATION, AVATAR_GENERATION}

AIServiceError          == "AIServiceError"
ServiceUnavailableError == "ServiceUnavailableError"
QuotaExceededError      == "QuotaExceededError"
TypeError               == "TypeError"
KeyError                == "KeyError"
AllServicesFailed       == "AIServiceError: All services failed"

\* the exceptions the handler of the primary call names
Classified == {AIServiceError, ServiceUnavailableError, QuotaExceededError}

\* AIServiceConfig: the service and the fallback of each entry
TEXT_GENERATION_SERVICES ==
    [ primary  |-> [service |-> "openai",    fallback |-> "anthropic"],
      fallback |-> [service |-> "anthropic", fallback |-> NoOne] ]

IMAGE_GENERATION_SERVICES ==
    [ primary     |-> [service |-> "dall-e-3",         fallback |-> "midjourney"],
      alternative |-> [service |-> "midjourney",       fallback |-> "stable-diffusion"],
      budget      |-> [service |-> "stable-diffusion", fallback |-> NoOne] ]

VOICE_SYNTHESIS_SERVICES ==
    [ premium  |-> [service |-> "elevenlabs", fallback |-> "azure"],
      standard |-> [service |-> "azure",      fallback |-> "google"],
      budget   |-> [service |-> "google",     fallback |-> NoOne] ]

VIDEO_GENERATION_SERVICES ==
    [ premium  |-> [service |-> "runway",       fallback |-> "pika"],
      standard |-> [service |-> "pika",         fallback |-> "stable-video"],
      budget   |-> [service |-> "stable-video", fallback |-> NoOne] ]

MUSIC_GENERATION_SERVICES ==
    [ premium  |-> [service |-> "suno",     fallback |-> "aiva"],
      standard |-> [service |-> "aiva",     fallback |-> "soundraw"],
      budget   |-> [service |-> "soundraw", fallback |-> NoOne] ]

AVATAR_GENERATION_SERVICES ==
    [ premium  |-> [service |-> "synthesia", fallback |-> "did"],
      standard |-> [service |-> "did",       fallback |-> "heygen"],
      budget   |-> [service |-> "heygen",    fallback |-> NoOne] ]

config_map(service_type) ==
    CASE service_type = TEXT_GENERATION   -> TEXT_GENERATION_SERVICES
      [] service_type = IMAGE_GENERATION  -> IMAGE_GENERATION_SERVICES
      [] service_type = VOICE_SYNTHESIS   -> VOICE_SYNTHESIS_SERVICES
      [] service_type = VIDEO_GENERATION  -> VIDEO_GENERATION_SERVICES
      [] service_type = MUSIC_GENERATION  -> MUSIC_GENERATION_SERVICES
      [] service_type = AVATAR_GENERATION -> AVATAR_GENERATION_SERVICES

\* service_configs.get(tier, service_configs.get(ServiceTier.PREMIUM, {}))
_get_service_config(service_type, tier) ==
    LET service_configs == config_map(service_type)
    IN  IF tier \in DOMAIN service_configs THEN service_configs[tier]
        ELSE IF PREMIUM \in DOMAIN service_configs THEN service_configs[PREMIUM]
        ELSE EmptyTable

\* the adapters _initialize_services registers, each with its mock_mode
AdapterNames(service_type) ==
    CASE service_type = TEXT_GENERATION  -> {"openai", "anthropic"}
      [] service_type = IMAGE_GENERATION -> {"dall-e-3", "midjourney", "stable-diffusion"}
      [] service_type = VOICE_SYNTHESIS  -> {"elevenlabs", "azure", "google"}

\* BaseAIService.__init__: mock_mode or settings.ENVIRONMENT == "test"
AdapterMockMode(requested, environment) == requested \/ environment = "test"

_initialize_services(manager_mock_mode, environment) ==
    [service_type \in {TEXT_GENERATION, IMAGE_GENERATION, VOICE_SYNTHESIS} |->
        [name \in AdapterNames(service_type) |->
            AdapterMockMode(manager_mock_mode, environment)]]

\* what service.generate(**kwargs) can end in: a call whose arguments do not
\* fit the adapter raises TypeError; in mock mode the mock response is
\* returned; otherwise the provider answers or the adapter raises
GenerateOutcomes(adapter_mock_mode, kwargs_fit) ==
    IF ~kwargs_fit THEN {TypeError}
    ELSE IF adapter_mock_mode THEN {"ok"}
    ELSE {"ok"} \cup Classified

Invocation(name, outcome) == [service |-> name, outcome |-> outcome]

\* the dictionary returned when the primary served the request
PrimaryResult(primary_service, tier) ==
    [payload |-> primary_service, service_used |-> primary_service, tier |-> tier]

\* the dictionary returned when the fallback served the request
FallbackResult(fallback_service, tier) ==
    [payload |-> fallback_service, service_used |-> fallback_service, tier |-> tier,
     fallback_used |-> TRUE]

\* a handler that never takes the fallback hop
FallbackEligible_Never(service_type, fallback_service) == FALSE

\* if fallback_service and fallback_service in self.services[service_type]
FallbackEligible(service_type, fallback_service) ==
    /\ fallback_service # NoOne
    /\ fallback_service \in DOMAIN services[service_type]

Returns(service_type, tier, invoked, result) ==
    [service_type |-> service_type, tier |-> tier, invoked |-> invoked,
     raised |-> "none", result |-> result]

Raises(service_type, tier, invoked, error) ==
    [service_type |-> service_type, tier |-> tier, invoked |-> invoked,
     raised |-> error, result |-> EmptyTable]

generate_content(service_type, tier, kwargs_fit) ==
    LET service_config   == _get_service_config(service_type, tier)
        primary_service  == service_config.service
        fallback_service == service_config.fallback
    IN  /\ UNCHANGED <<ENVIRONMENT, mock_mode, services>>
        /\ UNCHANGED <<now, costVars, tasks, cacheVars, tierVars, keyVars>>
        /\ IF "service" \notin DOMAIN service_config
           THEN lastCall' = Raises(service_type, tier, <<>>, KeyError)
           ELSE IF service_type \notin DOMAIN services
                   \/ primary_service \notin DOMAIN services[service_type]
           THEN lastCall' = Raises(service_type, tier, <<>>, KeyError)
           ELSE \E first \in GenerateOutcomes(services[service_type][primary_service],
                                              kwargs_fit) :
                  LET tried == <<Invocation(primary_service, first)>>
                  IN  IF first = "ok"
                      THEN lastCall' = Returns(service_type, tier, tried,
                                               PrimaryResult(primary_service, tier))
                      ELSE IF first \notin Classified
                      THEN lastCall' = Raises(service_type, tier, tried, first)
                      ELSE IF ~FallbackEligible(service_type, fallback_service)
                      THEN lastCall' = Raises(service_type, tier, tried, AllServicesFailed)
                      ELSE \E second \in GenerateOutcomes(
                                            services[service_type][fallback_service],
                                            kwargs_fit) :
                             LET both == Append(tried,
                                                Invocation(fallback_service, second))
                             IN  IF second = "ok"
                                 THEN lastCall' = Returns(service_type, tier, both,
                                                     FallbackResult(fallback_service, tier))
                                 ELSE lastCall' = Raises(service_type, tier, both,
                                                         AllServicesFailed)

SetAll(flag) ==
    [service_type \in DOMAIN services |->
        [name \in DOMAIN services[service_type] |-> flag]]

enable_mock_mode ==
    /\ mock_mode' = TRUE
    /\ services' = SetAll(TRUE)
    /\ UNCHANGED <<ENVIRONMENT, lastCall>>
    /\ UNCHANGED <<now, costVars, tasks, cacheVars, tierVars, keyVars>>

disable_mock_mode ==
    /\ mock_mode' = FALSE
    /\ services' = SetAll(FALSE)
    /\ UNCHANGED <<ENVIRONMENT, lastCall>>
    /\ UNCHANGED <<now, costVars, tasks, cacheVars, tierVars, keyVars>>

Environments == {"development", "test"}

\* AIServiceManager(mock_mode=requested) under each environment
InitRouter ==
    /\ ENVIRONMENT \in Environments
    /\ \E requested \in BOOLEAN :
          /\ mock_mode = (requested \/ ENVIRONMENT = "test")
          /\ services = _initialize_services(requested \/ ENVIRONMENT = "test",
                                             ENVIRONMENT)
    /\ lastCall = NoCall
    /\ now = StartTime
    /\ tasks = <<>>
    /\ IdleCost
    /\ IdleCache
    /\ IdleTier
    /\ IdleKey

NextRouter ==
    \/ \E service_type \in ServiceType, tier \in ServiceTier, kwargs_fit \in BOOLEAN :
          generate_content(service_type, tier, kwargs_fit)
    \/ enable_mock_mode
    \/ disable_mock_mode

SpecRouter == InitRouter /\ [][NextRouter]_vars

-----------------------------------------------------------------------------
(* Properties of the router, checked under SpecRouter *)

CallMade == lastCall.service_type # "none"

CallConfig == _get_service_config(lastCall.service_type, lastCall.tier)

PrimaryInvoked == Len(lastCall.invoked) >= 1

PrimaryFailed == PrimaryInvoked /\ lastCall.invoked[1].outcome # "ok"

FallbackInvoked == Len(lastCall.invoked) >= 2

HasFallback ==
    /\ "fallback" \in DOMAIN CallConfig
    /\ CallConfig.fallback # NoOne
    /\ lastCall.service_type \in DOMAIN services
    /\ CallConfig.fallback \in DOMAIN services[lastCall.service_type]

Succeeded == CallMade /\ lastCall.raised = "none"

\* C14: if the primary adapter fails with a classified provider error and a
\* fallback is configured, registered for the capability and succeeds,
\* generate_content returns the fallback's payload with fallback_used = true
\* and service_used = the fallback's id.
C14_FallbackServesAfterClassifiedFailure ==
    ( /\ PrimaryInvoked
      /\ lastCall.invoked[1].outcome \in Classified
      /\ HasFallback )
    => /\ FallbackInvoked
       /\ lastCall.invoked[2].service = CallConfig.fallback
       /\ lastCall.invoked[2].outcome = "ok"
          => /\ lastCall.raised = "none"
             /\ lastCall.result.payload = CallConfig.fallback
             /\ lastCall.result.service_used = CallConfig.fallback
             /\ "fallback_used" \in DOMAIN lastCall.result
             /\ lastCall.result.fallback_used = TRUE

\* elevenlabs exceeded its quota and azure served the voice request
C14_Witness ==
    /\ lastCall.service_type = VOICE_SYNTHESIS
    /\ lastCall.tier = PREMIUM
    /\ lastCall.invoked = <<Invocation("elevenlabs", QuotaExceededError),
                            Invocation("azure", "ok")>>
    /\ lastCall.result.service_used = "azure"
    /\ lastCall.result.fallback_used = TRUE

\* C15: if the primary adapter fails and either no fallback is configured and
\* registered for the capability or the fallback also fails, generate_content
\* fails with the capability-exhausted error and returns no result.
C15_ExhaustionRaisesAllServicesFailed ==
    ( /\ PrimaryFailed
      /\ (~HasFallback \/ (FallbackInvoked /\ lastCall.invoked[2].outcome # "ok")) )
    => /\ lastCall.raised = AllServicesFailed
       /\ lastCall.result = EmptyTable

\* C16: in any single generate_content call the primary adapter is invoked
\* exactly once, the fallback at most once and only after the primary's
\* failure, and no third adapter is invoked.
C16_PrimaryOnceFallbackAtMostOnce ==
    CallMade =>
        /\ Len(lastCall.invoked) \in {1, 2}
        /\ lastCall.invoked[1].service = CallConfig.service
        /\ FallbackInvoked
           => /\ lastCall.invoked[1].outcome # "ok"
              /\ lastCall.invoked[2].service = CallConfig.fallback
              /\ lastCall.invoked[2].service # lastCall.invoked[1].service

\* C17: generate_content raises no error other than the capability-exhausted
\* (all services failed) error.
C17_OnlyAllServicesFailedIsRaised ==
    CallMade => lastCall.raised \in {"none", AllServicesFailed}

\* C18: every successful generate_content result carries service_used equal
\* to the id of the adapter whose generate produced the payload, and a
\* fallback indicator that is true exactly when the fallback served the
\* request and false when the primary served it.
C18_ResultNamesServerAndFallback ==
    Succeeded =>
        /\ lastCall.result.service_used = lastCall.result.payload
        /\ lastCall.result.payload = lastCall.invoked[Len(lastCall.invoked)].service
        /\ "fallback_used" \in DOMAIN lastCall.result
        /\ lastCall.result.fallback_used = FallbackInvoked

\* C19: when the environment is the test environment, every adapter's
\* mock_mode is true in every reachable state.
C19_TestEnvironmentForcesMockMode ==
    ENVIRONMENT = "test" =>
        \A service_type \in DOMAIN services :
            \A name \in DOMAIN services[service_type] : services[service_type][name]


(***************************************************************************)
(* The cache key of a Python dict.  A dict keeps its keys in insertion     *)
(* order, so here a mapping is a sequence of <<key, value>> items with     *)
(* distinct keys; a value is a str, an int, a list or a dict:              *)
(* [t |-> "list", v |-> <<values>>], [t |-> "dict", v |-> <<items>>].      *)
(* Values of other types (stringified by the source) are not drawn.        *)
(***************************************************************************)

ListVal(v) == [t |-> "list", v |-> v]
DictVal(v) == [t |-> "dict", v |-> v]

\* the code point that orders an item when two strings are compared
ItemOrd(c) ==
    CASE c = " "     -> 32
      [] c = "Water" -> 87
      [] c = "cycle" -> 99
      [] c = "water" -> 119

\* a < b for two str, as Python compares them
RECURSIVE StrLess(_, _)
StrLess(a, b) ==
    IF b = <<>> THEN FALSE
    ELSE IF a = <<>> THEN TRUE
    ELSE IF Head(a) = Head(b) THEN StrLess(Tail(a), Tail(b))
    ELSE ItemOrd(Head(a)) < ItemOrd(Head(b))

\* sorted(value) for a list of str
RECURSIVE sorted(_)
sorted(value) ==
    IF value = <<>> THEN <<>>
    ELSE LET rest == sorted(Tail(value))
             x    == Head(value)
             k    == Cardinality({j \in 1..Len(rest) : StrLess(rest[j].v, x.v)})
         IN SubSeq(rest, 1, k) \o <<x>> \o SubSeq(rest, k + 1, Len(rest))

\* _normalize_parameters on a dict: the result is built key by key in the
\* order of parameters.items()
RECURSIVE _normalize_parameters_dict(_)
_normalize_parameters_dict(parameters) ==
    [i \in 1..Len(parameters) |->
        LET key   == parameters[i][1]
            value == parameters[i][2]
        IN <<key,
             CASE value.t = "str"  -> StrVal(join(split(lower(value.v))))
               [] value.t = "int"  -> value
               [] value.t = "list" ->
                    IF \A j \in 1..Len(value.v) : value.v[j].t = "str"
                    THEN ListVal(sorted(value.v))
                    ELSE value
               [] value.t = "dict" -> DictVal(_normalize_parameters_dict(value.v))>>]

\* the keys the modelled requests use, in the order Python compares them
KeyNames == <<"age_group", "options", "prompt", "style", "tags">>

KeyOrd(key) == CHOOSE i \in 1..Len(KeyNames) : KeyNames[i] = key

\* the items as the dict gave them
SortItems_AsInserted(items) == items

\* the items of a dict ordered by key
RECURSIVE SortItems(_)
SortItems(items) ==
    IF items = <<>> THEN <<>>
    ELSE LET rest == SortItems(Tail(items))
             x    == Head(items)
             k    == Cardinality({j \in 1..Len(rest) : KeyOrd(rest[j][1]) < KeyOrd(x[1])})
         IN SubSeq(rest, 1, k) \o <<x>> \o SubSeq(rest, k + 1, Len(rest))

\* json.dumps(obj, sort_keys=True): the text is kept as the value it
\* writes, every dict in it with its items in key order
RECURSIVE dumps(_)
dumps(obj) ==
    CASE obj.t = "dict" ->
            DictVal(SortItems([i \in 1..Len(obj.v) |-> <<obj.v[i][1], dumps(obj.v[i][2])>>]))
      [] obj.t = "list" -> ListVal([j \in 1..Len(obj.v) |-> dumps(obj.v[j])])
      [] OTHER -> obj

\* _create_cache_key on a dict; the digest is kept as the text it is taken of
_create_cache_key_dict(cache_type, parameters) ==
    LET normalized   == _normalize_parameters_dict(parameters)
        param_string == dumps(DictVal(normalized))
    IN [cache_type |-> cache_type, digest |-> param_string]

(* ---- the parameter mappings a caller may pass ---- *)

KeyParameters ==
    { << <<"prompt", StrVal(<<"Water", " ", "cycle">>)>>,
         <<"tags", ListVal(<<StrVal(<<"water">>), StrVal(<<"cycle">>)>>)>>,
         <<"options", DictVal(<< <<"style", StrVal(<<"water">>)>>,
                                 <<"age_group", IntVal(7)>> >>)>> >> }

\* the sequence with the items at i and i + 1 exchanged
SwapAt(s, i) ==
    [j \in 1..Len(s) |-> IF j = i THEN s[i + 1] ELSE IF j = i + 1 THEN s[i] ELSE s[j]]

FlipCase(c) == IF c = "Water" THEN "water" ELSE IF c = "water" THEN "Water" ELSE c

\* the strings that differ from s in the case of one item
Recased(s) == {[s EXCEPT ![i] = FlipCase(s[i])] : i \in {j \in 1..Len(s) : FlipCase(s[j]) # s[j]}}

\* i is a place of s at its start, at its end or next to whitespace
AtBlank(s, i) == i = 1 \/ i = Len(s) + 1 \/ s[i - 1] = " " \/ s[i] = " "

\* the strings that differ from s by one whitespace item added at the start,
\* at the end or to a run of whitespace, or by one such item removed
Respaced(s) ==
    {SubSeq(s, 1, i - 1) \o <<" ">> \o SubSeq(s, i, Len(s)) :
        i \in {j \in 1..(Len(s) + 1) : Len(s) < MaxStrLen /\ AtBlank(s, j)}}
    \cup
    {SubSeq(s, 1, i - 1) \o SubSeq(s, i + 1, Len(s)) :
        i \in {j \in 1..Len(s) :
                 /\ s[j] = " "
                 /\ (j = 1 \/ j = Len(s) \/ s[j - 1] = " " \/ s[j + 1] = " ")}}

\* the mappings that differ from items in one place, in the way named by kind:
\* the order of two keys, the case or whitespace of a str value, or the order
\* of two elements of a list of str; at any depth of nested dicts
RECURSIVE Variants(_, _)
Variants(kind, items) ==
    (IF kind = "keys" THEN {SwapAt(items, i) : i \in 1..(Len(items) - 1)} ELSE {})
    \cup
    UNION { LET value == items[i][2]
                others ==
                    CASE value.t = "str" /\ kind = "case" ->
                            {StrVal(s) : s \in Recased(value.v)}
                      [] value.t = "str" /\ kind = "space" ->
                            {StrVal(s) : s \in Respaced(value.v)}
                      [] value.t = "list" /\ kind = "list" ->
                            IF \A j \in 1..Len(value.v) : value.v[j].t = "str"
                            THEN {ListVal(SwapAt(value.v, j)) : j \in 1..(Len(value.v) - 1)}
                            ELSE {}
                      [] value.t = "dict" ->
                            {DictVal(d) : d \in Variants(kind, value.v)}
                      [] OTHER -> {}
            IN {[items EXCEPT ![i] = <<items[i][1], w>>] : w \in others}
          : i \in 1..Len(items) }

IdleApp == now = StartTime /\ IdleCost /\ tasks = <<>> /\ IdleCache /\ IdleTier /\ IdleRouter

InitKey ==
    /\ keyIn \in {<<cache_type, parameters, parameters>> :
                     cache_type \in CacheTypes, parameters \in KeyParameters}
    /\ keyOut = <<>>
    /\ IdleApp

\* the caller passes the first mapping and a variant of the second, and
\* _create_cache_key is taken of both
CreateKeys(parameters) ==
    /\ keyIn' = <<keyIn[1], keyIn[2], parameters>>
    /\ keyOut' = <<_create_cache_key_dict(keyIn[1], keyIn[2]),
                   _create_cache_key_dict(keyIn[1], parameters)>>

ReorderKeys ==
    \E parameters \in Variants("keys", keyIn[3]) :
        /\ CreateKeys(parameters)
        /\ UNCHANGED <<now, costVars, tasks, cacheVars, tierVars, routerVars>>

RecaseString ==
    \E parameters \in Variants("case", keyIn[3]) :
        /\ CreateKeys(parameters)
        /\ UNCHANGED <<now, costVars, tasks, cacheVars, tierVars, routerVars>>

RespaceString ==
    \E parameters \in Variants("space", keyIn[3]) :
        /\ CreateKeys(parameters)
        /\ UNCHANGED <<now, costVars, tasks, cacheVars, tierVars, routerVars>>

ReorderList ==
    \E parameters \in Variants("list", keyIn[3]) :
        /\ CreateKeys(parameters)
        /\ UNCHANGED <<now, costVars, tasks, cacheVars, tierVars, routerVars>>

NextKey == ReorderKeys \/ RecaseString \/ RespaceString \/ ReorderList

SpecKey == InitKey /\ [][NextKey]_vars

\* the order of the keys of a mapping, at every depth
RECURSIVE KeyOrderOf(_)
KeyOrderOf(items) ==
    [i \in 1..Len(items) |->
        IF items[i][2].t = "dict"
        THEN <<items[i][1], KeyOrderOf(items[i][2].v)>>
        ELSE <<items[i][1]>>]

\* the value of a top-level key
ValueOf(items, key) == items[CHOOSE i \in 1..Len(items) : items[i][1] = key][2]

\* C20: for the same cache type, two parameter mappings that differ only in
\* key order (at any depth), in the case or whitespace of string values of the
\* mapping or its nested mappings, or in the order of list-of-string values,
\* get the same key from _create_cache_key.
C20_KeyIgnoresOrderCaseWhitespace ==
    keyOut # <<>> => keyOut[1] = keyOut[2]

C20_Witness ==
    /\ keyOut # <<>>
    /\ keyOut[1] = _create_cache_key_dict(keyIn[1], keyIn[2])
    /\ keyOut[2] = _create_cache_key_dict(keyIn[1], keyIn[3])
    /\ keyOut[1] = keyOut[2]
    /\ KeyOrderOf(keyIn[2])[1] # KeyOrderOf(keyIn[3])[1]
    /\ ValueOf(keyIn[3], "prompt") = StrVal(<<"water", " ", " ", "cycle">>)
    /\ ValueOf(keyIn[3], "tags") # ValueOf(keyIn[2], "tags")
    /\ ValueOf(ValueOf(keyIn[3], "options").v, "style") = StrVal(<<"Water", " ">>)
    /\ ValueOf(ValueOf(keyIn[3], "options").v, "age_group") = IntVal(7)
    /\ KeyOrderOf(ValueOf(keyIn[3], "options").v) # KeyOrderOf(ValueOf(keyIn[2], "options").v)

-----------------------------------------------------------------------------
(* Properties of the content cache, checked under SpecCache *)

\* both tiers answer (the fast tier when one is configured)
TiersHealthy == dbUp /\ (redis_client => redisUp)

\* what _get_exact_match would return for the key from the tiers rds and rows
\* at the present time, with both tiers answering
ExactMatchOf(rds, rows, cache_key) ==
    IF redis_client /\ cache_key \in DOMAIN rds /\ rds[cache_key].expires > now
    THEN rds[cache_key].data
    ELSE IF cache_key \in DOMAIN rows /\ Unexpired(rows[cache_key])
    THEN rows[cache_key].content_data
    ELSE NoPayload

\* C21: a cache_content call that repeats an earlier one (same cache type,
\* parameters and payload) leaves one active durable entry for the key that
\* an exact-match lookup returns, with the same content hash and with its
\* hit_count unchanged; hit_count changes only in lookups.
C21_SecondWriteIsIdempotent ==
    [][ /\ \A cache_type \in CacheTypes, parameters \in CacheParameters, content \in Payloads :
             LET cache_key == _create_cache_key(cache_type, parameters)
             IN  ( /\ cache_content(cache_type, parameters, content)
                   /\ TiersHealthy
                   /\ cache_key \in DOMAIN cacheRows
                   /\ cacheRows[cache_key].content_data = content )
                 => /\ cache_key \in DOMAIN cacheRows'
                    /\ cacheRows'[cache_key].is_active
                    /\ cacheRows'[cache_key].content_hash = content
                    /\ cacheRows'[cache_key].hit_count = cacheRows[cache_key].hit_count
                    /\ ExactMatchOf(redis', cacheRows', cache_key) = content
        /\ \A k \in DOMAIN cacheRows \cap DOMAIN cacheRows' :
             cacheRows'[k].hit_count # cacheRows[k].hit_count
                => lastGet'.op = "get_cached_content" ]_vars

-----------------------------------------------------------------------------
(* Lookups by similarity in a durable tier that already holds entries.     *)
(* The entries are those cache_content wrote at StartTime.                 *)

\* the ContentCacheEntry that cache_content adds
NewCacheEntry(cache_type, parameters, content) ==
    [ cache_type        |-> cache_type,
      content_hash      |-> content,
      normalized_params |-> _normalize_parameters(parameters),
      content_data      |-> content,
      hit_count         |-> 0,
      last_accessed     |-> NoTime,
      expires_at        |-> StartTime + cache_config(cache_type).ttl,
      is_active         |-> TRUE ]

\* the durable tier after cache_content was called with each of the writes
SeededRows(writes) ==
    [cache_key \in {_create_cache_key(w.cache_type, w.parameters) : w \in writes} |->
        LET w == CHOOSE x \in writes :
                    _create_cache_key(x.cache_type, x.parameters) = cache_key
        IN  NewCacheEntry(w.cache_type, w.parameters, w.content)]

SimplyPrompt    == <<"the", " ", "water", " ", "cycle", " ", "explained", " ", "simply">>
SimplyForPrompt == SimplyPrompt \o <<" ", "for">>
ForKidsPrompt   == <<"water", " ", "cycle", " ", "explained", " ", "simply", " ", "for", " ", "kids">>
ExplainedPrompt == <<"the", " ", "Water", " ", " ", "cycle", " ", "explained">>

PromptRequest(prompt, age_group) ==
    [prompt |-> StrVal(prompt), age_group |-> StrVal(<<age_group>>)]

SemanticTypes == {SCRIPT, QUIZ}
AgeGroups     == {"kids", "teens"}

SemanticWrites ==
    {[cache_type |-> cache_type, parameters |-> PromptRequest(prompt, age_group),
      content |-> IF prompt = SimplyPrompt THEN "payload1" ELSE "payload2"] :
        cache_type \in SemanticTypes, prompt \in {SimplyPrompt, SimplyForPrompt},
        age_group \in AgeGroups}

SemanticRequests ==
    {PromptRequest(prompt, age_group) :
        prompt \in {SimplyPrompt, SimplyForPrompt, ForKidsPrompt, ExplainedPrompt},
        age_group \in AgeGroups}

InitSemantic ==
    /\ now = StartTime
    /\ redis_client = FALSE
    /\ redis = EmptyTable
    /\ redisUp = TRUE
    /\ dbUp = TRUE
    /\ \E writes \in SUBSET SemanticWrites :
          /\ Cardinality(writes) <= MaxSeeded
          /\ Cardinality({_create_cache_key(w.cache_type, w.parameters) : w \in writes})
                = Cardinality(writes)
          /\ cacheRows = SeededRows(writes)
    /\ lastGet = NoGet
    /\ tasks = <<>>
    /\ IdleCost
    /\ IdleTier
    /\ IdleRouter
    /\ IdleKey

\* the lookups are for scripts; the quiz entries are of another cache type
NextSemantic ==
    \E parameters \in SemanticRequests :
        get_cached_content(SCRIPT, parameters, NoStrategy)

SpecSemantic == InitSemantic /\ [][NextSemantic]_vars

\* the similarity of the request's prompt and the stored prompt of an entry
PromptSimilarity(parameters, row) ==
    _calculate_text_similarity(lower(parameters.prompt.v),
                               lower(row.normalized_params.prompt.v))

\* the entries a semantic lookup scans: active, unexpired, of the cache type
\* and the age group of the request
Candidates(cache_type, parameters) ==
    {k \in DOMAIN cacheRows :
        /\ cacheRows[k].cache_type = cache_type
        /\ Unexpired(cacheRows[k])
        /\ cacheRows[k].normalized_params.age_group = parameters.age_group}

\* the entries whose hit was counted in this step
HitRows == {k \in DOMAIN cacheRows : cacheRows'[k].hit_count = cacheRows[k].hit_count + 1}

\* C22: a semantic-match lookup returns an entry only if the Jaccard
\* similarity of the token sets of the request prompt and the stored prompt
\* is strictly greater than 0.80, and the entry returned has the highest
\* similarity among the candidates of the same cache type and age group; with
\* 'the water cycle explained simply' stored and 'water cycle explained simply
\* for kids' requested nothing is returned.
C22_SemanticMatchAboveThresholdAndBest ==
    [][ \A cache_type \in {SCRIPT}, parameters \in SemanticRequests :
          get_cached_content(cache_type, parameters, SEMANTIC_MATCH)
          => /\ lastGet'.result # NoPayload
                => \E k \in Candidates(cache_type, parameters) :
                      LET sim == PromptSimilarity(parameters, cacheRows[k])
                      IN  /\ HitRows = {k}
                          /\ lastGet'.result = cacheRows[k].content_data
                          /\ 5 * sim[1] > 4 * sim[2]
                          /\ \A j \in Candidates(cache_type, parameters) :
                                LET other == PromptSimilarity(parameters, cacheRows[j])
                                IN  other[1] * sim[2] <= sim[1] * other[2]
             /\ ( /\ parameters.prompt.v = ForKidsPrompt
                  /\ \A k \in DOMAIN cacheRows :
                        cacheRows[k].normalized_params.prompt.v = SimplyPrompt )
                => lastGet'.result = NoPayload ]_vars

\* both stored prompts are above the threshold for the request and the entry
\* with the higher similarity was returned
C22_Witness ==
    /\ lastGet.op = "get_cached_content"
    /\ lastGet.strategy = SEMANTIC_MATCH
    /\ lastGet.result = "payload1"
    /\ \E k1, k2 \in DOMAIN cacheRows :
          /\ cacheRows[k1].hit_count = 1
          /\ cacheRows[k2].hit_count = 0
          /\ cacheRows[k1].cache_type = cacheRows[k2].cache_type
          /\ cacheRows[k1].normalized_params.age_group = cacheRows[k2].normalized_params.age_group
          /\ cacheRows[k1].normalized_params.prompt.v = SimplyPrompt
          /\ cacheRows[k2].normalized_params.prompt.v = SimplyForPrompt

\* the fast tier is configured and its calls fail
FastTierDown == redis_client /\ ~redisUp

\* C23: when the fast tier is configured but its calls fail and the durable
\* tier holds an active unexpired entry for the key, an exact-match
\* get_cached_content returns that entry's payload, and cache_content still
\* persists a new entry to the durable tier.
C23_FastTierOutageIsTransparent ==
    [][ \A cache_type \in CacheTypes, parameters \in CacheParameters :
          LET cache_key == _create_cache_key(cache_type, parameters)
          IN  /\ ( /\ get_cached_content(cache_type, parameters, EXACT_MATCH)
                   /\ FastTierDown /\ dbUp
                   /\ cache_key \in DOMAIN cacheRows
                   /\ Unexpired(cacheRows[cache_key]) )
                 => lastGet'.result = cacheRows[cache_key].content_data
              /\ \A content \in Payloads :
                   ( /\ cache_content(cache_type, parameters, content)
                     /\ FastTierDown /\ dbUp
                     /\ cache_key \notin DOMAIN cacheRows )
                   => /\ cache_key \in DOMAIN cacheRows'
                      /\ cacheRows'[cache_key].content_data = content ]_vars

(* The cache while the durable tier is down.  Before the outage            *)
(* cache_content was called at most MaxKeys times, at StartTime.           *)

CacheWrites ==
    {[cache_type |-> cache_type, parameters |-> parameters, content |-> content] :
        cache_type \in CacheTypes, parameters \in CacheParameters, content \in Payloads}

\* the fast tier after cache_content was called with each of the writes
SeededRedis(writes) ==
    LET rows == SeededRows(writes)
    IN  [cache_key \in DOMAIN rows |->
            [data    |-> rows[cache_key].content_data,
             expires |-> rows[cache_key].expires_at,
             entry   |-> EntryOf(rows[cache_key])]]

InitOutage ==
    /\ now = StartTime
    /\ redis_client \in BOOLEAN
    /\ redisUp = TRUE
    /\ dbUp = FALSE
    /\ \E writes \in SUBSET CacheWrites :
          /\ Cardinality(writes) <= MaxKeys
          /\ cacheRows = SeededRows(writes)
          /\ redis = IF redis_client THEN SeededRedis(writes) ELSE EmptyTable
    /\ lastGet = NoGet
    /\ tasks = <<>>
    /\ IdleCost
    /\ IdleTier
    /\ IdleRouter
    /\ IdleKey

NextOutage ==
    \/ \E cache_type \in CacheTypes, parameters \in CacheParameters, content \in Payloads :
          cache_content(cache_type, parameters, content)
    \/ \E cache_type \in CacheTypes, parameters \in CacheParameters,
          strategy \in CacheStrategy \cup {NoStrategy} :
          get_cached_content(cache_type, parameters, strategy)
    \/ cleanup_expired_cache
    \/ FastTierFlips
    \/ \E step \in CacheTickSteps : CacheTick(step)

SpecOutage == InitOutage /\ [][NextOutage]_vars

\* the step is one call of get_cached_content, of cache_content: each call
\* leaves its name in lastGet, and the tiers and the clock as they were
IsGetStep ==
    /\ lastGet'.op = "get_cached_content"
    /\ redisUp' = redisUp /\ dbUp' = dbUp /\ now' = now

IsWriteStep ==
    /\ lastGet'.op = "cache_content"
    /\ redisUp' = redisUp /\ dbUp' = dbUp /\ now' = now

-----------------------------------------------------------------------------
(* CostTracker.estimate_cost as a function of its arguments *)

\* SERVICE_RATES: the keys of the rate table of each service that has one
RateKeys ==
    [service_type \in {OPENAI_GPT, OPENAI_DALLE, ANTHROPIC_CLAUDE, ELEVENLABS_TTS,
                       RUNWAY_VIDEO} |->
        CASE service_type = OPENAI_GPT       -> {"gpt-4", "gpt-3.5-turbo"}
          [] service_type = OPENAI_DALLE     -> {"dall-e-3", "dall-e-2"}
          [] service_type = ANTHROPIC_CLAUDE -> {"claude-3-sonnet", "claude-3-haiku"}
          [] service_type = ELEVENLABS_TTS   -> {"default"}
          [] service_type = RUNWAY_VIDEO     -> {"gen-2"}]

AIServiceType == {OPENAI_GPT, OPENAI_DALLE, ANTHROPIC_CLAUDE, ELEVENLABS_TTS,
                  RUNWAY_VIDEO, MIDJOURNEY}

Models == {"gpt-4", "gpt-3.5-turbo", "dall-e-3", "dall-e-2", "claude-3-sonnet",
           "claude-3-haiku", "default", "gen-2", "gpt-5"}

OperationParams ==
    { EmptyTable,
      [input_tokens |-> 1000, max_tokens |-> 500],
      [n |-> 2, quality |-> "hd"],
      [text_len |-> 250],
      [duration |-> 8] }

InitEstimate ==
    /\ estimateIn \in [service_type : AIServiceType, model : Models, params : OperationParams]
    /\ estimateOut = NoCost
    /\ tierIn = 0
    /\ tierOut = "none"
    /\ now = StartTime
    /\ IdleCost
    /\ tasks = <<>>
    /\ IdleCache
    /\ IdleRouter
    /\ IdleKey

Estimate ==
    /\ estimateOut = NoCost
    /\ estimateOut' = estimate_cost(estimateIn.service_type, estimateIn.model,
                                    estimateIn.params)
    /\ UNCHANGED <<estimateIn, tierIn, tierOut, now, costVars, tasks, cacheVars,
                   routerVars, keyVars>>

NextEstimate == Estimate

SpecEstimate == InitEstimate /\ [][NextEstimate]_vars

\* the rate table has neither an entry for the model nor a default entry
\* for the service
NoRateEntry(service_type, model) ==
    \/ service_type \notin DOMAIN RateKeys
    \/ (model \notin RateKeys[service_type] /\ "default" \notin RateKeys[service_type])

\* C25: estimate_cost for a service type / model combination that has no
\* entry in the rate table returns the fixed estimate 0.10.
C25_UnknownCombinationEstimatesTenCents ==
    (estimateOut # NoCost /\ NoRateEntry(estimateIn.service_type, estimateIn.model))
        => estimateOut = USD(1) \div 10

\* a model the OpenAI table does not list was estimated at 0.10 although the
\* request names 1000 input tokens
C25_Witness ==
    /\ estimateIn.service_type = OPENAI_GPT
    /\ estimateIn.model = "gpt-5"
    /\ estimateIn.params = [input_tokens |-> 1000, max_tokens |-> 500]
    /\ estimateOut = USD(1) \div 10

-----------------------------------------------------------------------------
(* Period rollover and default budgets, checked under SpecCost *)

ResetAtOf(budget, period) ==
    CASE period = "daily"   -> budget.daily_reset_at
      [] period = "weekly"  -> budget.weekly_reset_at
      [] period = "monthly" -> budget.monthly_reset_at

\* C26: when check_budget_limits runs at a time at or past a period's reset
\* timestamp, the creator's stored spent counter of that period becomes zero
\* and its stored reset timestamp moves to a time strictly after now.
C26_RolloverIsStored ==
    [][ IsRequestStep =>
          LET c == NewEntry.creator_id
          IN  c \in DOMAIN budgets =>
                \A period \in Periods :
                    now >= ResetAtOf(budgets[c], period)
                    => /\ SpentOf(budgets'[c], period) = 0
                       /\ ResetAtOf(budgets'[c], period) > now ]_vars

\* C27: in check_budget_limits each of the three spent counters is reset to
\* zero if and only if now has reached that period's own reset timestamp,
\* whatever the other two periods do; a counter whose reset timestamp is
\* still in the future is left as it is, with its timestamp.
C27_PeriodsResetIndependently ==
    \A c \in DOMAIN budgets :
        LET budget == check_budget_limits(budgets, c, 0, now).budget
        IN  \A period \in Periods :
                IF now >= ResetAtOf(budgets[c], period)
                THEN /\ SpentOf(budget, period) = 0
                     /\ ResetAtOf(budget, period) > now
                ELSE /\ SpentOf(budget, period) = SpentOf(budgets[c], period)
                     /\ ResetAtOf(budget, period) = ResetAtOf(budgets[c], period)

\* a request was checked when only the weekly period had rolled over: the
\* check counted the week from zero and the day and the month from 49.00
C27_Witness ==
    /\ lastOp.op = "request_approval"
    /\ "c1" \in DOMAIN budgets
    /\ budgets["c1"].weekly_reset_at <= now
    /\ now < budgets["c1"].daily_reset_at
    /\ now < budgets["c1"].monthly_reset_at
    /\ budgets["c1"].weekly_spent = USD(49)
    /\ LET budget == check_budget_limits(budgets, "c1", 0, now).budget
       IN  /\ budget.weekly_spent = 0
           /\ budget.daily_spent = USD(49)
           /\ budget.monthly_spent = USD(49)

\* C28: the first check_budget_limits for a creator with no budget record
\* creates one CreatorBudget with the default limits (daily 50.00, weekly
\* 200.00, monthly 500.00, auto-approve threshold 5.00, nothing spent, not
\* suspended) and evaluates the limits on it; a later check reuses the
\* creator's budget.
C28_DefaultBudgetCreatedOnce ==
    [][ IsRequestStep =>
          LET c == NewEntry.creator_id
          IN  IF c \notin DOMAIN budgets
              THEN /\ DOMAIN budgets' = DOMAIN budgets \cup {c}
                   /\ budgets'[c].daily_limit = 500000
                   /\ budgets'[c].weekly_limit = 2000000
                   /\ budgets'[c].monthly_limit = 5000000
                   /\ budgets'[c].auto_approve_threshold = 50000
                   /\ budgets'[c].daily_spent = 0
                   /\ budgets'[c].weekly_spent = 0
                   /\ budgets'[c].monthly_spent = 0
                   /\ ~budgets'[c].is_suspended
                   /\ StepCheck.budget = budgets'[c]
                   /\ lastOp'.within_limits = (NewEntry.estimated_cost <= 500000)
              ELSE /\ DOMAIN budgets' = DOMAIN budgets
                   /\ budgets'[c] = budgets[c] ]_vars

\* creator c1 had no budget and got the default one with its first request,
\* made on Monday at 10:00
C28_Witness ==
    /\ lastOp.op = "request_approval"
    /\ "c1" \in DOMAIN budgets
    /\ budgets["c1"] = BudgetRow(24, StartTime + 7 * 24, StartTime + 32 * 24)

\* C29: an exact-match lookup asks the fast tier first and the durable tier
\* only after a fast-tier miss; after a durable hit the fast tier holds the
\* payload with an expiry equal to the entry's remaining lifetime, never
\* later than the durable entry's expires_at.
C29_BackfillKeepsRemainingLifetime ==
    [][ \A cache_type \in CacheTypes, parameters \in CacheParameters :
          LET cache_key == _create_cache_key(cache_type, parameters)
          IN  ( /\ get_cached_content(cache_type, parameters, EXACT_MATCH)
                /\ TiersHealthy )
              => /\ (redis_client /\ RedisHolds(cache_key))
                       => lastGet'.tier = "redis" /\ lastGet'.result = redis[cache_key].data
                 /\ (redis_client /\ lastGet'.tier = "db")
                       => /\ ~RedisHolds(cache_key)
                          /\ cache_key \in DOMAIN redis'
                          /\ redis'[cache_key].data = cacheRows[cache_key].content_data
                          /\ redis'[cache_key].expires = cacheRows[cache_key].expires_at ]_vars

\* C30: every get_cached_content call that returns a payload increases the
\* returned entry's hit_count by one and sets its last_accessed to now, and
\* changes nothing else; a call that returns no match changes no entry.
C30_LookupCountsExactlyOneHit ==
    [][ IsGetStep =>
          IF lastGet'.result # NoPayload
          THEN \E k \in DOMAIN cacheRows : cacheRows' = CountHit(cacheRows, k)
          ELSE cacheRows' = cacheRows ]_vars

-----------------------------------------------------------------------------
(* Fuzzy lookups in a durable tier that already holds image entries.       *)

ImageRequest(age_group, subject_area) ==
    [age_group |-> StrVal(<<age_group>>), subject_area |-> StrVal(<<subject_area>>)]

WithSoftKeys(parameters, difficulty_level, duration) ==
    [key \in DOMAIN parameters \cup {"difficulty_level", "duration"} |->
        IF key = "difficulty_level" THEN StrVal(<<difficulty_level>>)
        ELSE IF key = "duration" THEN IntVal(duration)
        ELSE parameters[key]]

WithDuration(parameters, duration) ==
    [key \in DOMAIN parameters \cup {"duration"} |->
        IF key = "duration" THEN IntVal(duration) ELSE parameters[key]]

FuzzyWrites ==
    {[cache_type |-> IMAGE, parameters |-> parameters, content |-> "payload1"] :
        parameters \in
            {WithSoftKeys(ImageRequest("kids", "science"), "easy", 30),
             WithSoftKeys(ImageRequest("kids", "science"), "easy", 60),
             WithSoftKeys(ImageRequest("teens", "science"), "hard", 40),
             WithDuration(ImageRequest("teens", "art"), 32),
             ImageRequest("kids", "art")}}

FuzzyRequests ==
    {WithSoftKeys(ImageRequest(age_group, "science"), difficulty_level, duration) :
        age_group \in AgeGroups, difficulty_level \in {"easy", "hard"},
        duration \in {30, 32}}
    \cup {WithDuration(ImageRequest(age_group, "art"), 40) : age_group \in AgeGroups}
    \cup {ImageRequest("kids", "science"), [age_group |-> StrVal(<<"kids">>)]}

InitFuzzy ==
    /\ now = StartTime
    /\ redis_client = FALSE
    /\ redis = EmptyTable
    /\ redisUp = TRUE
    /\ dbUp = TRUE
    /\ \E writes \in SUBSET FuzzyWrites :
          /\ Cardinality(writes) <= MaxSeeded
          /\ cacheRows = SeededRows(writes)
    /\ lastGet = NoGet
    /\ tasks = <<>>
    /\ IdleCost
    /\ IdleTier
    /\ IdleRouter
    /\ IdleKey

NextFuzzy ==
    \E parameters \in FuzzyRequests :
        get_cached_content(IMAGE, parameters, NoStrategy)

SpecFuzzy == InitFuzzy /\ [][NextFuzzy]_vars

\* the similarity of the two values of one soft key, as a fraction
SoftSimilarity(val1, val2) ==
    IF val1.t = "int" /\ val2.t = "int"
    THEN IF val1.v = 0 \/ val2.v = 0
         THEN IF val1.v = val2.v THEN <<1, 1>> ELSE <<0, 1>>
         ELSE <<Max(val1.v, val2.v) - Abs(val1.v - val2.v), Max(val1.v, val2.v)>>
    ELSE _calculate_text_similarity(TextOf(val1), TextOf(val2))

SoftKeysOfBoth(params1, params2) ==
    {"difficulty_level", "duration"} \cap DOMAIN params1 \cap DOMAIN params2

\* the mean of the similarities over the soft keys both mappings hold is at
\* least 0.80; with no such key there is nothing to average
AverageSimilarityAtLeastThreshold(params1, params2) ==
    LET both == SoftKeysOfBoth(params1, params2)
        sim(key) == SoftSimilarity(params1[key], params2[key])
    IN  CASE both = {} -> TRUE
          [] Cardinality(both) = 1 ->
                LET s == sim(CHOOSE key \in both : TRUE)
                IN  5 * s[1] >= 4 * s[2]
          [] OTHER ->
                LET s1 == sim("difficulty_level")
                    s2 == sim("duration")
                IN  5 * (s1[1] * s2[2] + s2[1] * s1[2]) >= 8 * s1[2] * s2[2]

\* C31: a fuzzy-match lookup accepts a candidate only if the candidate
\* equals the (normalized) request on the hard keys age_group and
\* subject_area and the average similarity over the soft keys
\* difficulty_level and duration present in both is at least 0.80.
C31_FuzzyAcceptsOnlySimilarCandidates ==
    [][ \A parameters \in FuzzyRequests :
          ( /\ get_cached_content(IMAGE, parameters, FUZZY_MATCH)
            /\ lastGet'.result # NoPayload )
          => \E k \in HitRows :
                LET request == _normalize_parameters(parameters)
                    stored  == cacheRows[k].normalized_params
                IN  /\ lastGet'.result = cacheRows[k].content_data
                    /\ \A key \in {"age_group", "subject_area"} :
                          /\ key \in DOMAIN request <=> key \in DOMAIN stored
                          /\ key \in DOMAIN request => request[key] = stored[key]
                    /\ AverageSimilarityAtLeastThreshold(request, stored) ]_vars

\* a fuzzy lookup has returned an entry that holds both soft keys
C31_Witness ==
    /\ lastGet.op = "get_cached_content"
    /\ lastGet.strategy = FUZZY_MATCH
    /\ lastGet.result # NoPayload
    /\ \E k \in DOMAIN cacheRows :
          /\ cacheRows[k].hit_count = 1
          /\ {"difficulty_level", "duration"} \subseteq DOMAIN cacheRows[k].normalized_params

-----------------------------------------------------------------------------
(* Template lookups in a durable tier that already holds video entries.    *)

VideoRequest(age_group, difficulty_level, video_duration, prompt) ==
    [age_group        |-> StrVal(<<age_group>>),
     subject_area     |-> StrVal(<<"science">>),
     difficulty_level |-> StrVal(<<difficulty_level>>),
     video_duration   |-> IntVal(video_duration),
     prompt           |-> StrVal(prompt)]

\* the request without some of its parameters
Without(parameters, keys) == [key \in DOMAIN parameters \ keys |-> parameters[key]]

TemplateWrites ==
    {[cache_type |-> VIDEO, parameters |-> parameters,
      content |-> IF parameters.difficulty_level.v = <<"easy">>
                  THEN "payload1" ELSE "payload2"] :
        parameters \in
            {VideoRequest("kids", "easy", 30, <<"cycle">>),
             VideoRequest("kids", "hard", 30, <<"water">>),
             VideoRequest("teens", "easy", 32, <<"cycle">>),
             VideoRequest("teens", "easy", 30, <<"water">>),
             Without(VideoRequest("teens", "hard", 32, <<"water">>), {"video_duration"})}}

TemplateRequests ==
    {Without(VideoRequest(age_group, "easy", 30, prompt), keys) :
        age_group \in AgeGroups, prompt \in {<<"cycle">>, <<"water">>},
        keys \in {{}, {"difficulty_level"}, {"prompt"},
                  {"subject_area", "difficulty_level", "video_duration"}}}

InitTemplate ==
    /\ now = StartTime
    /\ redis_client = FALSE
    /\ redis = EmptyTable
    /\ redisUp = TRUE
    /\ dbUp = TRUE
    /\ \E writes \in SUBSET TemplateWrites :
          /\ Cardinality(writes) <= MaxSeeded
          /\ cacheRows = SeededRows(writes)
    /\ lastGet = NoGet
    /\ tasks = <<>>
    /\ IdleCost
    /\ IdleTier
    /\ IdleRouter
    /\ IdleKey

NextTemplate ==
    \E parameters \in TemplateRequests :
        get_cached_content(VIDEO, parameters, NoStrategy)

SpecTemplate == InitTemplate /\ [][NextTemplate]_vars

\* the four structural parameters of a request, parameters.get(key) of each
StructuralOf(parameters) ==
    [key \in TemplateKeys \cap DOMAIN parameters |-> parameters[key]]

\* the step is a template lookup of the request
TemplateLookup(parameters) == get_cached_content(VIDEO, parameters, TEMPLATE_MATCH)

\* two requests that agree on the four structural parameters get the same
\* outcome: a step of one is a step of the other
SameStructureSameOutcome ==
    \A p1, p2 \in TemplateRequests :
        (StructuralOf(p1) = StructuralOf(p2) /\ TemplateLookup(p1)) => TemplateLookup(p2)

\* C32 as stated: the outcome of a template-match lookup depends only on the
\* four structural parameters of the request; any entry it returns has stored
\* values equal to the request's on all four, and two requests that agree on
\* the four but differ in content parameters get the same outcome.
C32_TemplateEqualOnAllFour ==
    [][ /\ \A parameters \in TemplateRequests :
             (TemplateLookup(parameters) /\ lastGet'.result # NoPayload)
             => \E k \in HitRows :
                   /\ lastGet'.result = cacheRows[k].content_data
                   /\ StructuralOf(cacheRows[k].normalized_params)
                        = StructuralOf(parameters)
        /\ SameStructureSameOutcome ]_vars

\* C32 as amended: any entry a template-match lookup returns has stored
\* values equal to the request's on each of the four structural parameters
\* that the request gives; a structural parameter the request leaves out
\* matches any stored value. Two requests that agree on the four structural
\* parameters get the same outcome.
C32_TemplateEqualOnGivenStructure ==
    [][ /\ \A parameters \in TemplateRequests :
             (TemplateLookup(parameters) /\ lastGet'.result # NoPayload)
             => \E k \in HitRows :
                   /\ lastGet'.result = cacheRows[k].content_data
                   /\ \A key \in DOMAIN StructuralOf(parameters) :
                         /\ key \in DOMAIN cacheRows[k].normalized_params
                         /\ cacheRows[k].normalized_params[key] = parameters[key]
        /\ SameStructureSameOutcome ]_vars

\* a template lookup has returned a "hard" entry: the requests ask for
\* "easy" or leave difficulty_level out
C32_Witness ==
    /\ lastGet.op = "get_cached_content"
    /\ lastGet.strategy = TEMPLATE_MATCH
    /\ lastGet.result = "payload2"
    /\ \E k \in DOMAIN cacheRows :
          /\ cacheRows[k].hit_count = 1
          /\ cacheRows[k].content_data = "payload2"

-----------------------------------------------------------------------------
\* C33: after cache_content has been called twice for the same key with
\* different payloads, the fast tier and the durable tier hold the same
\* payload for that key (the last write, in both), so that an exact-match
\* lookup returns the same content whichever tier serves it.
C33_TiersConvergeOnLastWrite ==
    [][ (IsWriteStep /\ TiersHealthy /\ redis_client)
        => \A k \in DOMAIN redis' \cap DOMAIN cacheRows' :
              (redis'[k].expires > now /\ Unexpired(cacheRows'[k]))
              => redis'[k].data = cacheRows'[k].content_data ]_vars

-----------------------------------------------------------------------------
\* SERVICE_RATES of the text providers, per token, in 1e-8 USD
TokenRates(service_type, model) ==
    CASE model = "gpt-4"           -> [input |-> 3000, output |-> 6000]
      [] model = "gpt-3.5-turbo"   -> [input |-> 100,  output |-> 200]
      [] model = "claude-3-sonnet" -> [input |-> 300,  output |-> 1500]
      [] model = "claude-3-haiku"  -> [input |-> 25,   output |-> 125]

\* input_tokens x input rate + max_tokens x output rate, to 4 decimals; the
\* rates of gpt-4 and the output rate of claude-3-sonnet are floats a hair
\* below the decimal, so that a tie falls down
TextRateFormula(service_type, model, params) ==
    LET rates == TokenRates(service_type, model)
        total == Get(params, "input_tokens", 0) * rates.input
                   + Get(params, "max_tokens", 150) * rates.output
    IN  IF model \in {"gpt-4", "claude-3-sonnet"}
        THEN RoundTieDown(total, 10000)
        ELSE RoundHalfEven(total, 10000)

RateFormula(service_type, model, params) ==
    CASE service_type \in {OPENAI_GPT, ANTHROPIC_CLAUDE} ->
            TextRateFormula(service_type, model, params)
      [] service_type = OPENAI_DALLE ->
            Get(params, "n", 1) * DalleRate(model, Get(params, "quality", "standard"))
      [] service_type = ELEVENLABS_TTS ->
            RoundTieDown(9 * Get(params, "text_len", 0), 5)
      [] service_type = RUNWAY_VIDEO ->
            Get(params, "duration", 5) * 125

\* C34: for every provider and model with an entry in the rate table,
\* estimate_cost returns the rate formula rounded to 4 decimals: for the text
\* providers (OpenAI GPT and Anthropic Claude) input_tokens x input rate +
\* max_tokens x output rate, for images n x the per-image rate of the
\* quality, for speech the character count x the per-character rate, for
\* video the duration x the per-second rate.
C34_EstimateIsRateFormula ==
    (estimateOut # NoCost /\ HasRates(estimateIn.service_type, estimateIn.model))
        => estimateOut = RateFormula(estimateIn.service_type, estimateIn.model,
                                     estimateIn.params)

-----------------------------------------------------------------------------
(* Approval notifications: callbacks are registered, then approval is      *)
(* requested.                                                              *)

CallbackNames == {"email", "webhook", "pager"}

InitNotify ==
    /\ now = StartTime
    /\ budgets \in InitialBudgets
    /\ costEntries = <<>>
    /\ approvals = <<>>
    /\ lastOp = NoOp
    /\ reconciled = 0
    /\ approval_callbacks = <<>>
    /\ notified = <<>>
    /\ tasks = <<>>
    /\ IdleCache
    /\ IdleTier
    /\ IdleRouter
    /\ IdleKey

NextNotify ==
    \/ \E callback_name \in CallbackNames, raises \in BOOLEAN :
          /\ costEntries = <<>>
          /\ register_approval_callback(callback_name, raises)
    \/ \E c \in Creators, req \in Requests : request_approval(c, req)

SpecNotify == InitNotify /\ [][NextNotify]_vars

\* the invocations made in this step
NewlyNotified == SubSeq(notified', Len(notified) + 1, Len(notified'))

\* C35: when request_approval creates an ApprovalRequest, every registered
\* approval callback is invoked exactly once with that request; a callback
\* that raises neither keeps the remaining callbacks from being invoked nor
\* changes the result of request_approval; no callback is invoked when the
\* outcome is AUTO_APPROVED or REJECTED.
C35_EveryCallbackNotifiedOnce ==
    [][ IsRequestStep =>
          /\ Len(notified) <= Len(notified')
          /\ SubSeq(notified', 1, Len(notified)) = notified
          /\ IF Len(approvals') = Len(approvals) + 1
             THEN /\ \A i \in 1..Len(approval_callbacks) :
                        Cardinality({n \in 1..Len(NewlyNotified) :
                            /\ NewlyNotified[n].callback = approval_callbacks[i].callback_name
                            /\ NewlyNotified[n].request_id = Len(approvals')}) = 1
                  /\ Len(NewlyNotified) = Len(approval_callbacks)
                  /\ lastOp'.ok
                  /\ lastOp'.status = PENDING
                  /\ lastOp'.request_id = Len(approvals')
                  /\ approvals'[Len(approvals')].status = PENDING
                  /\ NewEntry.approval_status = PENDING
             ELSE /\ NewEntry.approval_status \in {AUTO_APPROVED, REJECTED}
                  /\ NewlyNotified = <<>> ]_vars

\* an approval request was created with three callbacks registered, the
\* first of which raises, and all three were invoked
C35_Witness ==
    /\ lastOp.op = "request_approval"
    /\ lastOp.request_id = 1
    /\ Len(approval_callbacks) = 3
    /\ approval_callbacks[1].raises
    /\ ~approval_callbacks[3].raises
    /\ Len(notified) = 3

-----------------------------------------------------------------------------
(* Reconciliation of one cost entry that already exists: the entry is as   *)
(* request_approval left it at StartTime, as approve_request or            *)
(* reject_request decided it, or as an earlier record_actual_cost left it. *)
(* reconciled counts the calls made from here on.                          *)

\* the ApprovalRequest row as approve_request / reject_request leave it
DecideApprovalRequest(approval_request, status, by, t, reason) ==
    IF status = APPROVED
    THEN [approval_request EXCEPT !.status = APPROVED, !.approved_by = by,
                                  !.approved_at = t, !.approval_method = "manual"]
    ELSE [approval_request EXCEPT !.status = REJECTED, !.rejection_reason = reason]

Decisions == {PENDING, APPROVED, REJECTED}

InitReconcile ==
    /\ now = StartTime
    /\ \E budget \in {SpentBudget, BudgetRow(24, 22, 46)}, req \in Requests,
          decision \in Decisions, recorded \in {NoCost} \cup ActualCosts :
          LET table          == "c1" :> budget
              estimated_cost == estimate_cost(req.service_type, req.model, req.params)
              cost_tier      == determine_cost_tier(estimated_cost)
              budget_check   == check_budget_limits(table, "c1", estimated_cost, StartTime)
              cost_entry     == NewCostEntry("c1", req, estimated_cost, cost_tier,
                                             budget_check, StartTime)
              spawn          == NeedsApprovalRequest(cost_tier, budget_check)
              approval_request == NewApprovalRequest(1, "c1", estimated_cost, cost_tier,
                                                     StartTime)
              decided        == IF spawn /\ decision # PENDING
                                THEN DecideCostEntry(cost_entry, decision, "admin",
                                                     StartTime, "too expensive")
                                ELSE cost_entry
          IN  /\ (~spawn => decision = PENDING)
              /\ costEntries =
                    << IF recorded = NoCost THEN decided
                       ELSE [decided EXCEPT !.actual_cost = recorded,
                                            !.is_processed = TRUE] >>
              /\ approvals =
                    IF ~spawn THEN <<>>
                    ELSE IF decision = PENDING THEN <<approval_request>>
                    ELSE <<DecideApprovalRequest(approval_request, decision, "admin",
                                                 StartTime, "too expensive")>>
              /\ budgets = IF recorded = NoCost THEN table
                           ELSE "c1" :> AddSpent(budget, recorded)
    /\ lastOp = NoOp
    /\ reconciled = 0
    /\ approval_callbacks = <<>>
    /\ notified = <<>>
    /\ tasks = <<>>
    /\ IdleCache
    /\ IdleTier
    /\ IdleRouter
    /\ IdleKey

NextReconcile ==
    \/ \E id \in 1..MaxEntries, a \in ActualCosts : record_actual_cost(id, a)
    \/ \E step \in TickSteps : Tick(step)

SpecReconcile == InitReconcile /\ [][NextReconcile]_vars

\* the spent counters of the creator of the recorded entry are as before
CountersUnchanged ==
    \A c \in DOMAIN budgets :
        \A period \in Periods : SpentOf(budgets'[c], period) = SpentOf(budgets[c], period)

\* C36: the actual cost of a CostEntry is counted at most once: a
\* record_actual_cost call for an entry that is already processed does not
\* increase the creator's spent counters again.
C36_ActualCostCountedOnce ==
    [][ (IsRecordStep /\ costEntries[lastOp'.arg].is_processed) => CountersUnchanged ]_vars

\* C37: record_actual_cost increases the creator's spent counters only for a
\* CostEntry whose status is APPROVED or AUTO_APPROVED; called for an entry
\* that is PENDING or REJECTED it leaves the counters unchanged.
C37_OnlyApprovedCostIsCounted ==
    [][ (IsRecordStep /\ costEntries[lastOp'.arg].approval_status \in {PENDING, REJECTED})
        => CountersUnchanged ]_vars

-----------------------------------------------------------------------------
(* approve_request and reject_request in flight at once on one PENDING     *)
(* ApprovalRequest.  Each call runs in its own session: the query reads    *)
(* what is committed, the commit writes the columns the call assigned.     *)

NewDecision(op) ==
    [ pc |-> "start", op |-> op, approval_request_id |-> 1, result |-> "none" ]

InitDecide ==
    /\ now = StartTime
    /\ \E budget \in {SpentBudget, BudgetRow(24, 22, 46)}, req \in Requests :
          LET table          == "c1" :> budget
              estimated_cost == estimate_cost(req.service_type, req.model, req.params)
              cost_tier      == determine_cost_tier(estimated_cost)
              budget_check   == check_budget_limits(table, "c1", estimated_cost, StartTime)
          IN  /\ NeedsApprovalRequest(cost_tier, budget_check)
              /\ budgets = table
              /\ costEntries = <<NewCostEntry("c1", req, estimated_cost, cost_tier,
                                              budget_check, StartTime)>>
              /\ approvals = <<NewApprovalRequest(1, "c1", estimated_cost, cost_tier,
                                                  StartTime)>>
    /\ lastOp = NoOp
    /\ reconciled = 0
    /\ approval_callbacks = <<>>
    /\ notified = <<>>
    /\ tasks \in [1..NTasks -> {NewDecision(op) : op \in {"approve_request", "reject_request"}}]
    /\ IdleCache
    /\ IdleTier
    /\ IdleRouter
    /\ IdleKey

\* the query for the PENDING request, and the expiry test of approve_request
TaskDecideLoad(i) ==
    LET t  == tasks[i]
        id == t.approval_request_id
    IN  /\ t.pc = "start"
        /\ IF ~FindPending(id)
           THEN /\ tasks' = [tasks EXCEPT ![i] = [t EXCEPT !.pc = "done", !.result = FALSE]]
                /\ approvals' = approvals
           ELSE IF t.op = "approve_request" /\ IsExpired(approvals[id], now)
           THEN /\ tasks' = [tasks EXCEPT ![i] = [t EXCEPT !.pc = "done", !.result = FALSE]]
                /\ approvals' = [approvals EXCEPT ![id].status = EXPIRED]
           ELSE /\ tasks' = [tasks EXCEPT ![i] = [t EXCEPT !.pc = "loaded"]]
                /\ approvals' = approvals
        /\ UNCHANGED <<now, budgets, costEntries, lastOp, reconciled, approval_callbacks,
                       notified, cacheVars, tierVars, routerVars, keyVars>>

\* the assignments to the request and to its cost entry, and the commit
TaskDecideCommit(i) ==
    LET t  == tasks[i]
        id == t.approval_request_id
        ce == approvals[id].cost_entry_id
        status == IF t.op = "approve_request" THEN APPROVED ELSE REJECTED
    IN  /\ t.pc = "loaded"
        /\ approvals' = [approvals EXCEPT
                           ![id] = DecideApprovalRequest(@, status, "admin", now,
                                                         "too expensive")]
        /\ costEntries' = IF ce \in 1..Len(costEntries)
                          THEN [costEntries EXCEPT
                                  ![ce] = DecideCostEntry(@, status, "admin", now,
                                                          "too expensive")]
                          ELSE costEntries
        /\ tasks' = [tasks EXCEPT ![i] = [t EXCEPT !.pc = "done", !.result = TRUE]]
        /\ UNCHANGED <<now, budgets, lastOp, reconciled, approval_callbacks, notified,
                       cacheVars, tierVars, routerVars, keyVars>>

\* the clock moves while the calls are in flight
DecideTick(step) ==
    /\ now + step <= MaxTime
    /\ now' = now + step
    /\ UNCHANGED <<costVars, tasks, cacheVars, tierVars, routerVars, keyVars>>

NextDecide ==
    \/ \E i \in 1..NTasks : TaskDecideLoad(i)
    \/ \E i \in 1..NTasks : TaskDecideCommit(i)
    \/ \E step \in TickSteps : DecideTick(step)

SpecDecide == InitDecide /\ [][NextDecide]_vars

\* C38: when approve_request and reject_request run at once on the same
\* PENDING ApprovalRequest, at most one of them returns success, and the
\* request and its cost entry end in the same single terminal status
\* (stated for a request that has not expired).
C38_OneDecisionWins ==
    ( /\ \A i \in 1..NTasks : tasks[i].pc = "done"
      /\ \E i, j \in 1..NTasks : tasks[i].op # tasks[j].op
      /\ ~IsExpired(approvals[1], now) )
    => /\ Cardinality({i \in 1..NTasks : tasks[i].result = TRUE}) <= 1
       /\ approvals[1].status \in {APPROVED, REJECTED}
       /\ costEntries[1].approval_status = approvals[1].status

-----------------------------------------------------------------------------
(* Exact-match lookups in flight at once.  Each lookup counts its hit in   *)
(* its own session: it reads the entry, adds one to the hit_count it read  *)
(* and commits that value.                                                 *)

NewLookup(parameters) ==
    [ pc |-> "start", cache_key |-> _create_cache_key(IMAGE, parameters),
      hit_count |-> 0, content_data |-> NoPayload, via |-> "none",
      result |-> NoPayload ]

HitWrites ==
    {[cache_type |-> IMAGE, parameters |-> parameters, content |-> "payload1"] :
        parameters \in CacheParameters}

InitHits ==
    /\ now = StartTime
    /\ redis_client \in BOOLEAN
    /\ redisUp = TRUE
    /\ dbUp = TRUE
    /\ \E writes \in SUBSET HitWrites :
          /\ Cardinality(writes) <= MaxKeys
          /\ cacheRows = SeededRows(writes)
          /\ redis = IF redis_client THEN SeededRedis(writes) ELSE EmptyTable
    /\ lastGet = NoGet
    /\ tasks \in [1..NTasks -> {NewLookup(parameters) : parameters \in CacheParameters}]
    /\ IdleCost
    /\ IdleTier
    /\ IdleRouter
    /\ IdleKey

\* _get_exact_match up to the query that loads the entry: on a hit in the
\* fast tier the query is the one of _update_cache_stats
TaskLookupLoad(i) ==
    LET t == tasks[i]
        k == t.cache_key
    IN  /\ t.pc = "start"
        /\ tasks' = [tasks EXCEPT ![i] =
              IF redis_client /\ RedisHolds(k)
              THEN IF k \in DOMAIN cacheRows
                   THEN [t EXCEPT !.pc = "loaded", !.via = "redis",
                                  !.hit_count = cacheRows[k].hit_count,
                                  !.content_data = redis[k].data]
                   ELSE [t EXCEPT !.pc = "done", !.result = redis[k].data]
              ELSE IF k \in DOMAIN cacheRows /\ Unexpired(cacheRows[k])
                   THEN [t EXCEPT !.pc = "loaded", !.via = "db",
                                  !.hit_count = cacheRows[k].hit_count,
                                  !.content_data = cacheRows[k].content_data]
                   ELSE [t EXCEPT !.pc = "done"]]
        /\ UNCHANGED <<now, costVars, cacheVars, tierVars, routerVars, keyVars>>

\* cache_entry.hit_count += 1 on the entry as loaded, and the commit
TaskLookupCommit(i) ==
    LET t == tasks[i]
        k == t.cache_key
    IN  /\ t.pc = "loaded"
        /\ cacheRows' = [cacheRows EXCEPT ![k].hit_count = t.hit_count + 1,
                                          ![k].last_accessed = now]
        /\ redis' = IF t.via = "db" /\ redis_client
                    THEN setex(k, cache_config(IMAGE).ttl, t.content_data,
                               EntryOf(cacheRows[k]))
                    ELSE redis
        /\ tasks' = [tasks EXCEPT ![i] = [t EXCEPT !.pc = "done",
                                                   !.result = t.content_data]]
        /\ UNCHANGED <<now, costVars, redis_client, redisUp, dbUp, lastGet,
                       tierVars, routerVars, keyVars>>

NextHits ==
    \/ \E i \in 1..NTasks : TaskLookupLoad(i)
    \/ \E i \in 1..NTasks : TaskLookupCommit(i)

SpecHits == InitHits /\ [][NextHits]_vars

\* C39: when N successful lookups of the same cache entry run at once, the
\* hit_count of the entry ends exactly N higher: no update is lost.  The
\* entries start with hit_count 0.
C39_NoHitIsLost ==
    (\A i \in 1..NTasks : tasks[i].pc = "done")
    => \A k \in DOMAIN cacheRows :
          cacheRows[k].hit_count =
              Cardinality({i \in 1..NTasks :
                              tasks[i].cache_key = k /\ tasks[i].result # NoPayload})

-----------------------------------------------------------------------------
\* C40: for every capability with registered adapters (text, image, voice)
\* and every tier, _get_service_config yields a configuration that names a
\* registered primary service, so that generate_content always reaches a
\* provider invocation.
C40_EveryTierNamesRegisteredPrimary ==
    (CallMade /\ lastCall.service_type \in {TEXT_GENERATION, IMAGE_GENERATION,
                                            VOICE_SYNTHESIS})
    => /\ "service" \in DOMAIN CallConfig
       /\ CallConfig.service \in DOMAIN services[lastCall.service_type]
       /\ PrimaryInvoked
=============================================================================
